---- MODULE Spec2Model ----
(***************************************************************************)
(* DatabaseManager (src/core/database.py) of the Discord bot: the lazily    *)
(* initialised sqlite store with its guild-settings cache, point ledger and *)
(* last-save marker; and the points cog (src/cogs/points.py), which writes  *)
(* the same ledger table through its own connections.                      *)
(*                                                                         *)
(* Every public coroutine runs on the asyncio event loop.  A coroutine runs *)
(* without interruption up to its next suspending await; the synchronous    *)
(* sqlite work it hands to asyncio.to_thread runs on a worker thread,       *)
(* concurrently with the loop, and the coroutine resumes in a later loop    *)
(* step.  One action of the model is one such uninterrupted piece: a loop   *)
(* step of one coroutine, or one sqlite statement of one worker thread.     *)
(***************************************************************************)
EXTENDS Integers, Sequences, FiniteSets, TLC

\* ------------------------------------------------------------------ bounds
NumTasks == 2        \* coroutines that may be in flight at once
MaxCalls == 2        \* calls made in one behaviour of overlapping callers
MaxSeqCalls == 3     \* calls made in one behaviour of a sequential caller
MaxInitFails == 1    \* times the schema creation may fail
MaxReadCalls == 4    \* calls made in one behaviour of overlapping readers
MaxInvocations == 2  \* commands invoked in one behaviour
MaxModInvocations == 2  \* commands of the cog Moderation invoked in one behaviour
NumCrypto == 2       \* invocations of the command crypto in one behaviour
NumReady == 2        \* on_ready events in one behaviour

Tasks == 1..NumTasks
CryptoSlots == 1..NumCrypto
ReadyEvents == 1..NumReady
Guilds == {1, 2}     \* guild ids
Users == {1, 2}      \* user ids
Ids == {1}           \* channel and role ids

\* --------------------------------------------------------- optional values
\* Python's Optional[T]: None is the empty tuple, a value v is <<v>>.
None == <<>>
Some(v) == <<v>>

\* A str is a sequence of one-character strings.
Whitespace == {" ", "\t"}
DefaultPrefix == <<"!">>

\* The prefix arguments tried by set_guild_prefix.
PrefixInputs ==
    { None, Some(<<>>), Some(<<" ">>), Some(<<"?">>),
      Some(<<" ", "*", "\t">>), Some(<<"a", " ", "b">>) }
ConcurrentPrefixInputs == { None, Some(<<" ", "*", "\t">>) }

Fields == {"prefix", "welcome_channel_id", "mod_role_id", "admin_role_id"}

\* Keys of the metadata table that callers name.
MetadataKeys == {"last_save", "daily_claim:1"}

VARIABLES
    is_setup,        \* DatabaseManager._is_setup
    locked,          \* DatabaseManager._setup_lock: asyncio.Lock._locked
    waiters,         \* DatabaseManager._setup_lock: asyncio.Lock._waiters, FIFO
    schema,          \* the three tables exist in the database file
    guild_settings,  \* table guild_settings: guild -> None or Some(row)
    settings_cache,  \* DatabaseManager._settings_cache: guild -> None or Some(GuildSettings)
    points,          \* table points: user -> None or Some(balance)
    db_writer,       \* the connection holding sqlite's write lock: None or Some(task)
    snapshot,        \* task -> state of its connection's read transaction
    pc,              \* task -> where its coroutine / worker thread stands
    call,            \* task -> the call it serves: [op, key, arg]
    local,           \* task -> value held by its worker thread / coroutine frame
    ret,             \* task -> None or Some(value returned by its last call)
    hist,            \* history: what has been called and completed so far
    metadata,        \* table metadata, key 'last_save': None or Some(value string)
    cog,             \* the points cog: "constructed", "initialising" (cog_load runs
                     \* _initialise under _init_lock) or "loaded" (_is_initialised
                     \* is set and the cog's commands are registered)
    connection,      \* task -> "open" while the sqlite3.Connection made by its
                     \* worker thread has not been closed, else "none"
    slash_synced,    \* bot._slash_synced
    cogs_dir,        \* the names of the entries of the directory COGS_DIR
    boot,            \* where main() stands: "main", "setup" (awaits
                     \* bot.database.setup()), "loading" (in load_extensions),
                     \* "started" (bot.start runs) or "aborted" (main raised)
    pending,         \* load_extensions: the extensions the for loop has yet to take
    attempts,        \* the arguments of the bot.load_extension calls, in call order
    extensions,      \* bot.extensions: the extensions that are loaded
    bot_log,         \* records of the logger "bot", in order
    invocations,     \* commands invoked so far
    channel,         \* the ctx.send calls of the latest command invocation and
                     \* of the handlers of its error, in order
    event,           \* the command_error event being dispatched: None or
                     \* Some([error, on_error]), on_error: the command has
                     \* an error handler of its own
    handler,         \* handler of command_error -> "idle", "pending" (scheduled),
                     \* "sending" (awaits ctx.send) or "returned"
    error_log,       \* records of the logger bot.error_logger, in order
    ctx,             \* the latest invocation of a command of the cog Moderation:
                     \* None or Some(record), see ModInvocations
    guild_roles,     \* the ids of the roles that exist in the guild
    coin_map,        \* Api._coin_map: None or Some(set of << symbol, coin id >>)
    crypto,          \* invocation of the command crypto -> its stage, symbol
                     \* and answer, whether it issued the listing request and
                     \* how that ended, and whether a listing request had
                     \* completed (had failed) when it was invoked
    listing_requests,\* GET requests for the coin listing issued so far
    ready,           \* on_ready event -> the stage of its handler: "idle",
                     \* "syncing" (awaits bot.tree.sync()) or "returned", and
                     \* how its sync ended: "none", "ok" or "raised"
    syncs            \* calls of bot.tree.sync() so far

\* The store, the manager, the points cog and the coroutines that use them.
dbvars == << is_setup, locked, waiters, schema, guild_settings, settings_cache,
             points, db_writer, snapshot, pc, call, local, ret, hist,
             metadata, cog, connection >>

\* The bot process around them.
\* main() and load_extensions.
bootvars == << cogs_dir, boot, pending, attempts, extensions >>

\* The command invocation in progress and the dispatch of its error.
cmdvars == << invocations, channel, event, handler, error_log >>

\* The cog Moderation and the guild it serves.
modvars == << ctx, guild_roles >>

\* The cog Api.
apivars == << coin_map, crypto, listing_requests >>

\* The handlers of on_ready.
readyvars == << slash_synced, ready, syncs >>

botvars == << bootvars, bot_log, cmdvars, modvars, apivars, readyvars >>

vars == << dbvars, botvars >>

\* ------------------------------------------------------------ operations
Accessors ==
    { "get_guild_settings", "get_prefix", "get_welcome_channel_id",
      "get_moderator_role_id", "get_admin_role_id" }
Mutators ==
    { "set_guild_prefix", "reset_guild_prefix", "set_welcome_channel",
      "set_moderator_role", "set_admin_role" }
GuildOps == Accessors \cup Mutators \cup {"clear_guild_settings"}
LedgerOps == {"get_balance", "add_balance"}

\* A task that serves no call: before its first call, or after a return / a raise.
Resting == {"idle", "done", "raised"}

\* An optional channel or role id.
OptIds == {None} \cup { Some(i) : i \in Ids }

\* ------------------------------------------------------- pure functions
RECURSIVE LStrip(_)
LStrip(s) ==
    IF s = <<>> THEN s
    ELSE IF Head(s) \in Whitespace THEN LStrip(Tail(s)) ELSE s

RECURSIVE RStrip(_)
RStrip(s) ==
    IF s = <<>> THEN s
    ELSE IF s[Len(s)] \in Whitespace THEN RStrip(SubSeq(s, 1, Len(s) - 1)) ELSE s

\* Mutant of Strip: str.lstrip().
StripLeft(s) == LStrip(s)

\* str.strip()
Strip(s) == RStrip(LStrip(s))

\* set_guild_prefix: normalised = prefix.strip() if isinstance(prefix, str) else None;
\* the value written is `normalised or None`.
NormalisePrefix(p) ==
    LET normalised == IF p = None THEN None ELSE Some(Strip(p[1]))
    IN  IF normalised = None THEN None
        ELSE IF normalised[1] = <<>> THEN None ELSE normalised

\* _row_to_settings
RowToSettings(g, row) ==
    IF row = None
    THEN [ guild_id |-> g, prefix |-> None, welcome_channel_id |-> None,
           mod_role_id |-> None, admin_role_id |-> None ]
    ELSE [ guild_id |-> row[1].guild_id, prefix |-> row[1].prefix,
           welcome_channel_id |-> row[1].welcome_channel_id,
           mod_role_id |-> row[1].mod_role_id,
           admin_role_id |-> row[1].admin_role_id ]

\* Mutant of UpsertRow: ON CONFLICT(guild_id) DO NOTHING, which leaves a row
\* that exists as it is.
UpsertRowIgnore(g, row, values) ==
    IF row = None
    THEN Some([ f \in Fields \cup {"guild_id"} |->
                  IF f = "guild_id" THEN g
                  ELSE IF f \in DOMAIN values THEN values[f] ELSE None ])
    ELSE row

\* Mutant of UpsertRow: INSERT OR REPLACE, which replaces the whole row.
UpsertRowReplace(g, row, values) ==
    Some([ f \in Fields \cup {"guild_id"} |->
             IF f = "guild_id" THEN g
             ELSE IF f \in DOMAIN values THEN values[f] ELSE None ])

\* INSERT INTO guild_settings (guild_id, <columns>) VALUES (...)
\* ON CONFLICT(guild_id) DO UPDATE SET <column>=excluded.<column>, ...
\* `values` is a function from the columns named to their new values.
UpsertRow(g, row, values) ==
    IF row = None
    THEN Some([ f \in Fields \cup {"guild_id"} |->
                  IF f = "guild_id" THEN g
                  ELSE IF f \in DOMAIN values THEN values[f] ELSE None ])
    ELSE Some([ f \in Fields \cup {"guild_id"} |->
                  IF f \in DOMAIN values THEN values[f] ELSE row[1][f] ])

\* The `values` dict each mutator hands to _upsert_guild_fields.
MutatorValues(c) ==
    CASE c.op = "set_guild_prefix"    -> [prefix |-> NormalisePrefix(c.arg)]
      [] c.op = "reset_guild_prefix"  -> [prefix |-> None]
      [] c.op = "set_welcome_channel" -> [welcome_channel_id |-> c.arg]
      [] c.op = "set_moderator_role"  -> [mod_role_id |-> c.arg]
      [] c.op = "set_admin_role"      -> [admin_role_id |-> c.arg]

\* What a call returns, given the GuildSettings that get_guild_settings gave it.
Project(op, settings) ==
    CASE op = "get_prefix" ->
            IF settings.prefix = None THEN DefaultPrefix
            ELSE IF settings.prefix[1] = <<>> THEN DefaultPrefix
            ELSE settings.prefix[1]
      [] op = "get_welcome_channel_id" -> settings.welcome_channel_id
      [] op = "get_moderator_role_id"  -> settings.mod_role_id
      [] op = "get_admin_role_id"      -> settings.admin_role_id
      [] OTHER -> settings

\* SELECT balance FROM points WHERE user_id = ?; int(row["balance"]) if row else 0
BalanceOf(u) == IF points[u] = None THEN 0 ELSE points[u][1]

\* Mutant of SortsBefore: ORDER BY balance DESC alone, where sqlite is free to
\* return rows of equal balance in any order, here the descending one.
SortsBeforeNoTieBreak(table, u, v) ==
    \/ table[u][1] > table[v][1]
    \/ table[u][1] = table[v][1] /\ u >= v

\* ORDER BY balance DESC, user_id ASC: the row of u sorts before the row of v.
SortsBefore(table, u, v) ==
    \/ table[u][1] > table[v][1]
    \/ table[u][1] = table[v][1] /\ u <= v

\* The users of the set S of rows, in the ORDER BY order.
RECURSIVE OrderBy(_, _)
OrderBy(table, S) ==
    IF S = {} THEN <<>>
    ELSE LET first == CHOOSE u \in S : \A v \in S : SortsBefore(table, u, v)
         IN  << first >> \o OrderBy(table, S \ {first})

\* LIMIT ?: sqlite returns at most `limit` rows, and all rows when limit < 0.
Limit(rows, limit) ==
    IF limit < 0 \/ limit >= Len(rows) THEN rows ELSE SubSeq(rows, 1, limit)

\* leaderboard's query(): SELECT user_id, balance FROM points
\* ORDER BY balance DESC, user_id ASC LIMIT ?, as a list of (user_id, balance).
LeaderboardQuery(table, limit) ==
    LET users == Limit(OrderBy(table, { u \in DOMAIN table : table[u] # None }), limit)
    IN  [ i \in 1..Len(users) |-> << users[i], table[users[i]][1] >> ]

\* leaderboard(self, limit: int = 5)
DefaultLimit == 5

\* A datetime is [minute, second, microsecond, tzinfo]; tzinfo is None (naive)
\* or Some(utcoffset in minutes).  The date and the hour are left out: isoformat
\* and fromisoformat treat them as they treat the minute.
DigitChars == << "0", "1", "2", "3", "4", "5", "6", "7", "8", "9" >>
TwoDigits(n) == << DigitChars[(n \div 10) + 1], DigitChars[(n % 10) + 1] >>
DigitValue(ch) == CHOOSE n \in 0..9 : DigitChars[n + 1] = ch
ParseTwoDigits(s, i) == 10 * DigitValue(s[i]) + DigitValue(s[i + 1])

\* The UTC offset as isoformat prints it: "+HH:MM" or "-HH:MM".
FormatOffset(off) ==
    LET a == IF off < 0 THEN -off ELSE off
    IN  << IF off < 0 THEN "-" ELSE "+" >> \o TwoDigits(a \div 60)
        \o << ":" >> \o TwoDigits(a % 60)

\* Mutant of IsoFormat: isoformat() with the default timespec, which prints
\* the microseconds when they are not zero.
IsoFormatAuto(when) ==
    TwoDigits(when.minute) \o << ":" >> \o TwoDigits(when.second)
    \o (IF when.microsecond = 0 THEN <<>>
        ELSE << "." >> \o TwoDigits(when.microsecond \div 10000)
             \o TwoDigits((when.microsecond \div 100) % 100)
             \o TwoDigits(when.microsecond % 100))
    \o (IF when.tzinfo = None THEN <<>> ELSE FormatOffset(when.tzinfo[1]))

\* when.isoformat(timespec="seconds"): "MM:SS", then the offset of an aware
\* datetime; the microseconds are dropped.
IsoFormat(when) ==
    TwoDigits(when.minute) \o << ":" >> \o TwoDigits(when.second)
    \o (IF when.tzinfo = None THEN <<>> ELSE FormatOffset(when.tzinfo[1]))

\* datetime.fromisoformat(value): "MM:SS", an optional ".ffffff" and an
\* optional offset.  A string with no offset gives a naive datetime.
FromIsoFormat(value) ==
    LET frac == Len(value) > 5 /\ value[6] = "."
        rest == IF frac THEN SubSeq(value, 13, Len(value))
                ELSE SubSeq(value, 6, Len(value))
    IN  [ minute |-> ParseTwoDigits(value, 1),
          second |-> ParseTwoDigits(value, 4),
          microsecond |->
              IF frac THEN 10000 * ParseTwoDigits(value, 7)
                           + 100 * ParseTwoDigits(value, 9) + ParseTwoDigits(value, 11)
              ELSE 0,
          tzinfo |->
              IF rest = <<>> THEN None
              ELSE Some((IF rest[1] = "-" THEN -1 ELSE 1)
                        * (60 * ParseTwoDigits(rest, 2) + ParseTwoDigits(rest, 5))) ]

\* INSERT INTO metadata (key, value) VALUES ('last_save', ?)
\* ON CONFLICT(key) DO UPDATE SET value=excluded.value
MetadataUpsert(old, value) == Some(value)

\* ------------------------------------------------------------- history
\* hist records, for stating properties, what the callers did:
\*   calls       calls made so far
\*   seq         no call so far was made while another call was in flight
\*   last        the task of the latest call
\*   alone       the latest call was made while no call was in flight
\*   stale       at the latest call the cache held an entry for its guild that the
\*               call outdates: the call is a mutator and the entry differs in the
\*               mutated field from the value to be written, or the call is
\*               clear_guild_settings and the entry is not all null
\*   before      done[g] as it was when the latest call, on guild g, was made
\*   done        guild -> the latest call on it that returned: None or Some(call)
\*   was_stale   guild -> `stale` of the latest mutator or clear_guild_settings
\*               that returned
\*   cleared     guild -> clear_guild_settings returned, no mutator called since
\*   prefix      guild -> the latest call that returned among set_guild_prefix,
\*               reset_guild_prefix and clear_guild_settings: None or Some(call)
\*   init_runs   executions of _initialise;  init_fails: those that raised
\*   log         user -> the add_balance transactions committed, in commit order,
\*               each << amount, new_balance >>
\*   credited    user -> the sum of the amounts of the add_balance calls, and of
\*               the add_points calls of the points cog, that returned
\*   saves       record_last_save calls made
\*   saved       the argument of the latest record_last_save that returned:
\*               None or Some(datetime)
\*   meta        key -> the value of the latest set_metadata_value call for it:
\*               None or Some(value)
\*   bal_before  the balance of the user of the latest points-cog command when
\*               the command was invoked
\* The per-guild fields describe a sequential history and are kept only while seq.
NoHistory(h) ==
    [ h EXCEPT !.stale = FALSE, !.before = None,
               !.done = [g \in Guilds |-> None],
               !.was_stale = [g \in Guilds |-> FALSE],
               !.cleared = [g \in Guilds |-> FALSE],
               !.prefix = [g \in Guilds |-> None] ]

InFlight == { s \in Tasks : pc[s] \notin Resting }

OnCall(h, t, c) ==
    LET sq == h.seq /\ InFlight = {}
        h1 == [ h EXCEPT !.calls = @ + 1, !.seq = sq, !.last = t,
                         !.alone = (InFlight = {}),
                         !.saves = IF c.op = "record_last_save" THEN @ + 1 ELSE @ ]
        g  == c.key
    IN  IF ~sq THEN NoHistory(h1)
        ELSE IF c.op \notin GuildOps THEN h1
        ELSE [ h1 EXCEPT
                 !.before = h.done[g],
                 !.stale = /\ settings_cache[g] # None
                           /\ \/ /\ c.op \in Mutators
                                 /\ \E f \in DOMAIN MutatorValues(c) :
                                      settings_cache[g][1][f] # MutatorValues(c)[f]
                              \/ /\ c.op = "clear_guild_settings"
                                 /\ settings_cache[g][1] # RowToSettings(g, None),
                 !.cleared = IF c.op \in Mutators
                             THEN [ @ EXCEPT ![g] = FALSE ] ELSE @ ]

\* The call c of task t returns (how = "done") or raises (how = "raised").
OnReturn(h, t, c, how) ==
    LET g == c.key
    IN  IF how = "done" /\ c.op = "add_balance"
        THEN [ h EXCEPT !.credited[c.key] = @ + c.arg ]
        ELSE IF how = "done" /\ c.op = "record_last_save"
        THEN [ h EXCEPT !.saved = Some(c.arg) ]
        ELSE IF ~h.seq \/ how # "done" \/ c.op \notin GuildOps THEN h
        ELSE [ h EXCEPT
                 !.done = [ @ EXCEPT ![g] = Some(c) ],
                 !.was_stale = IF c.op \in Mutators \cup {"clear_guild_settings"}
                               THEN [ @ EXCEPT ![g] = h.stale ] ELSE @,
                 !.cleared = IF c.op = "clear_guild_settings"
                             THEN [ @ EXCEPT ![g] = TRUE ] ELSE @,
                 !.prefix = IF c.op \in { "set_guild_prefix", "reset_guild_prefix",
                                          "clear_guild_settings" }
                            THEN [ @ EXCEPT ![g] = Some(c) ] ELSE @ ]

OnStep(h, t, c, newpc) ==
    IF newpc \in {"done", "raised"} THEN OnReturn(h, t, c, newpc) ELSE h

\* ---------------------------------------------------------------- setup
\* asyncio.Lock.acquire returns without suspending when the lock is free and
\* nobody waits for it; otherwise the caller joins the FIFO of waiters.
SetupFast == ~locked /\ waiters = <<>>

\* Mutant of Enter: the mutator's reload is get_guild_settings(guild_id), which
\* takes the cache entry when there is one.
EnterReloadCached(c, stage, cache) ==
    IF (stage = 2 \/ c.op \in Accessors) /\ (stage = 2 \/ c.arg) /\ cache[c.key] # None
    THEN [pc |-> "done", ret |-> Some(Project(c.op, cache[c.key][1]))]
    ELSE IF stage = 2 \/ c.op \in Accessors THEN [pc |-> "query", ret |-> None]
    ELSE CASE c.op = "setup" -> [pc |-> "done", ret |-> Some(None)]
           [] c.op \in Mutators -> [pc |-> "write", ret |-> None]
           [] c.op = "clear_guild_settings" -> [pc |-> "delete", ret |-> None]
           [] c.op = "get_balance" -> [pc |-> "bal_query", ret |-> None]
           [] c.op = "add_balance" -> [pc |-> "tx_select", ret |-> None]
           [] c.op = "leaderboard" -> [pc |-> "lb_query", ret |-> None]
           [] c.op = "record_last_save" -> [pc |-> "save_write", ret |-> None]
           [] c.op = "get_last_save" -> [pc |-> "save_query", ret |-> None]

\* Where a call goes once `await self.setup()` has returned.  stage 1 is the
\* start of the call, stage 2 the get_guild_settings(guild_id, use_cache=False)
\* with which a mutator reloads what it wrote.
Enter(c, stage, cache) ==
    IF stage = 2 THEN [pc |-> "query", ret |-> None]
    ELSE CASE c.op = "setup" -> [pc |-> "done", ret |-> Some(None)]
           [] c.op \in Accessors ->
                IF c.arg /\ cache[c.key] # None
                THEN [pc |-> "done", ret |-> Some(Project(c.op, cache[c.key][1]))]
                ELSE [pc |-> "query", ret |-> None]
           [] c.op \in Mutators -> [pc |-> "write", ret |-> None]
           [] c.op = "clear_guild_settings" -> [pc |-> "delete", ret |-> None]
           [] c.op = "get_balance" -> [pc |-> "bal_query", ret |-> None]
           [] c.op = "add_balance" -> [pc |-> "tx_select", ret |-> None]
           [] c.op = "leaderboard" -> [pc |-> "lb_query", ret |-> None]
           [] c.op = "record_last_save" -> [pc |-> "save_write", ret |-> None]
           [] c.op = "get_last_save" -> [pc |-> "save_query", ret |-> None]

\* Mutant of AwaitSetup: setup() without the lock.
AwaitSetupNoLock(t, c, stage, cache) ==
    IF is_setup
    THEN [ pc |-> Enter(c, stage, cache).pc, ret |-> Enter(c, stage, cache).ret,
           locked |-> FALSE, waiters |-> waiters ]
    ELSE [ pc |-> "init", ret |-> None, locked |-> FALSE, waiters |-> waiters ]

\* setup(), up to its first suspension: `async with self._setup_lock`, the
\* test of _is_setup, and the dispatch of _initialise.
AwaitSetup(t, c, stage, cache) ==
    IF ~SetupFast
    THEN [ pc |-> IF stage = 1 THEN "lock_wait" ELSE "reload_lock_wait",
           ret |-> None, locked |-> locked, waiters |-> Append(waiters, t) ]
    ELSE IF is_setup
    THEN [ pc |-> Enter(c, stage, cache).pc, ret |-> Enter(c, stage, cache).ret,
           locked |-> FALSE, waiters |-> waiters ]
    ELSE [ pc |-> "init", ret |-> None, locked |-> TRUE, waiters |-> waiters ]

\* Mutant of Call: the operation does not await setup() before its body.
CallSkipSetup(t, c) ==
    /\ pc[t] \in Resting
    /\ \A s \in Tasks : s < t => pc[s] \notin Resting
    /\ LET e == Enter(c, 1, settings_cache)
       IN  /\ pc' = [pc EXCEPT ![t] = e.pc]
           /\ ret' = [ret EXCEPT ![t] = e.ret]
           /\ hist' = OnStep(OnCall(hist, t, c), t, c, e.pc)
    /\ call' = [call EXCEPT ![t] = c]
    /\ local' = [local EXCEPT ![t] = None]
    /\ UNCHANGED << metadata, cog, connection >>
    /\ UNCHANGED << is_setup, locked, waiters, schema, guild_settings,
                    settings_cache, points, db_writer, snapshot >>

\* A caller starts the call c and runs to its first suspension.  The coroutines
\* are interchangeable: the call takes the first task that serves no call.
Call(t, c) ==
    /\ pc[t] \in Resting
    /\ \A s \in Tasks : s < t => pc[s] \notin Resting
    /\ LET o == AwaitSetup(t, c, 1, settings_cache)
       IN  /\ pc' = [pc EXCEPT ![t] = o.pc]
           /\ ret' = [ret EXCEPT ![t] = o.ret]
           /\ locked' = o.locked
           /\ waiters' = o.waiters
           /\ hist' = OnStep(OnCall(hist, t, c), t, c, o.pc)
    /\ call' = [call EXCEPT ![t] = c]
    /\ local' = [local EXCEPT ![t] = None]
    /\ UNCHANGED << metadata, cog, connection >>
    /\ UNCHANGED << is_setup, schema, guild_settings, settings_cache, points,
                    db_writer, snapshot >>

\* Mutant of GetPrefixEntry: get_prefix awaits setup() before it looks at
\* guild_id.
GetPrefixSetupFirst(t, c, cache) ==
    IF c.key # 0 THEN AwaitSetup(t, c, 1, cache)
    ELSE IF ~SetupFast
    THEN [ pc |-> "lock_wait", ret |-> None, locked |-> locked,
           waiters |-> Append(waiters, t) ]
    ELSE IF is_setup
    THEN [ pc |-> "done", ret |-> Some(DefaultPrefix), locked |-> FALSE,
           waiters |-> waiters ]
    ELSE [ pc |-> "init", ret |-> None, locked |-> TRUE, waiters |-> waiters ]

\* get_prefix, up to its first suspension.  The key 0 stands for guild_id None
\* (no guild, a direct message): `if guild_id is None: return
\* self.default_prefix`; otherwise get_guild_settings(guild_id), which starts
\* with setup().
GetPrefixEntry(t, c, cache) ==
    IF c.key = 0
    THEN [ pc |-> "done", ret |-> Some(DefaultPrefix), locked |-> locked,
           waiters |-> waiters ]
    ELSE AwaitSetup(t, c, 1, cache)

\* A caller starts get_prefix(guild_id), c.key being the guild or 0 for None.
CallGetPrefix(t, c) ==
    /\ pc[t] \in Resting
    /\ \A s \in Tasks : s < t => pc[s] \notin Resting
    /\ LET o == GetPrefixEntry(t, c, settings_cache)
           h == [ hist EXCEPT !.calls = @ + 1, !.seq = @ /\ InFlight = {},
                              !.last = t ]
       IN  /\ pc' = [pc EXCEPT ![t] = o.pc]
           /\ ret' = [ret EXCEPT ![t] = o.ret]
           /\ locked' = o.locked
           /\ waiters' = o.waiters
           /\ hist' = IF c.key = 0 THEN (IF h.seq THEN h ELSE NoHistory(h))
                      ELSE OnStep(OnCall(hist, t, c), t, c, o.pc)
    /\ call' = [call EXCEPT ![t] = c]
    /\ local' = [local EXCEPT ![t] = None]
    /\ UNCHANGED << metadata, cog, connection, botvars >>
    /\ UNCHANGED << is_setup, schema, guild_settings, settings_cache, points,
                    db_writer, snapshot >>

\* The first waiter of the setup lock is woken and resumes inside setup().
LockResume(t) ==
    /\ pc[t] \in {"lock_wait", "reload_lock_wait"}
    /\ ~locked
    /\ waiters # <<>> /\ Head(waiters) = t
    /\ waiters' = Tail(waiters)
    /\ LET stage == IF pc[t] = "lock_wait" THEN 1 ELSE 2
           e == Enter(call[t], stage, settings_cache)
           npc == IF is_setup THEN e.pc ELSE "init"
       IN  /\ locked' = ~is_setup
           /\ pc' = [pc EXCEPT ![t] = npc]
           /\ ret' = [ret EXCEPT ![t] = IF is_setup THEN e.ret ELSE None]
           /\ hist' = OnStep(hist, t, call[t], npc)
    /\ UNCHANGED << metadata, cog, connection, botvars >>
    /\ UNCHANGED << is_setup, schema, guild_settings, settings_cache, points,
                    db_writer, snapshot, call, local >>

\* Worker thread: _initialise connects and creates the tables, or raises
\* before it has a connection (storage unavailable).
InitRun(t) ==
    /\ pc[t] = "init"
    /\ \/ /\ schema' = TRUE
          /\ connection' = [connection EXCEPT ![t] = "open"]
          /\ pc' = [pc EXCEPT ![t] = "init_ok"]
          /\ hist' = [hist EXCEPT !.init_runs = @ + 1]
       \/ /\ hist.init_fails < MaxInitFails
          /\ schema' = schema
          /\ connection' = connection
          /\ pc' = [pc EXCEPT ![t] = "init_err"]
          /\ hist' = [hist EXCEPT !.init_runs = @ + 1, !.init_fails = @ + 1]
    /\ UNCHANGED << metadata, cog, botvars >>
    /\ UNCHANGED << is_setup, locked, waiters, guild_settings, settings_cache,
                    points, db_writer, snapshot, call, local, ret >>

\* Mutant of InitResume: the error of _initialise leaves setup() without the
\* lock being released.
InitResumeLockHeld(t) ==
    /\ pc[t] \in {"init_ok", "init_err"}
    /\ locked' = (pc[t] = "init_err")
    /\ LET e == Enter(call[t], 1, settings_cache)
           npc == IF pc[t] = "init_ok" THEN e.pc ELSE "raised"
       IN  /\ is_setup' = (is_setup \/ pc[t] = "init_ok")
           /\ pc' = [pc EXCEPT ![t] = npc]
           /\ ret' = [ret EXCEPT ![t] = IF pc[t] = "init_ok" THEN e.ret ELSE None]
           /\ hist' = OnStep(hist, t, call[t], npc)
    /\ UNCHANGED << metadata, cog, connection, botvars >>
    /\ UNCHANGED << waiters, schema, guild_settings, settings_cache, points,
                    db_writer, snapshot, call, local >>

\* setup() resumes after _initialise: marks the store ready and leaves the lock,
\* or lets the error of _initialise through (leaving the lock as well).
InitResume(t) ==
    /\ pc[t] \in {"init_ok", "init_err"}
    /\ locked' = FALSE
    /\ LET e == Enter(call[t], 1, settings_cache)
           npc == IF pc[t] = "init_ok" THEN e.pc ELSE "raised"
       IN  /\ is_setup' = (is_setup \/ pc[t] = "init_ok")
           /\ pc' = [pc EXCEPT ![t] = npc]
           /\ ret' = [ret EXCEPT ![t] = IF pc[t] = "init_ok" THEN e.ret ELSE None]
           /\ hist' = OnStep(hist, t, call[t], npc)
    /\ UNCHANGED << metadata, cog, connection, botvars >>
    /\ UNCHANGED << waiters, schema, guild_settings, settings_cache, points,
                    db_writer, snapshot, call, local >>

\* ------------------------------------------------------- sqlite (WAL mode)
\* A commit ends the committing connection's transaction and makes the read
\* snapshot of every other open transaction out of date.
AfterCommit(t) ==
    [ s \in Tasks |-> IF s = t THEN "none"
                      ELSE IF snapshot[s] = "fresh" THEN "stale" ELSE snapshot[s] ]

\* sqlite3.connect opens a connection.  No unit of the program calls close():
\* `with sqlite3.connect(...) as conn` commits or rolls back when the block is
\* left and leaves the connection open.  The connection object refers to its
\* statement cache, which refers back to it, so the end of the unit's frame
\* does not free it: it stays open until the garbage collector finds the cycle.
\* Where a call stands while the worker-thread unit of add_balance, its
\* execute(), is between two of its statements.  The unit of every other
\* operation is one step of the model.
InUnit == { "tx_insert", "tx_commit" }

\* ------------------------------------------------------- guild settings
\* Worker thread of get_guild_settings: query().
QueryRun(t) ==
    /\ pc[t] = "query"
    /\ local' = [local EXCEPT ![t] =
                   Some(RowToSettings(call[t].key, guild_settings[call[t].key]))]
    /\ pc' = [pc EXCEPT ![t] = "query_ret"]
    /\ connection' = [connection EXCEPT ![t] = "open"]
    /\ UNCHANGED << metadata, cog, botvars >>
    /\ UNCHANGED << is_setup, locked, waiters, schema, guild_settings,
                    settings_cache, points, db_writer, snapshot, call, ret, hist >>

\* Mutant of CacheStore: setdefault, which keeps an entry that is present.
CacheStoreIfAbsent(cache, g, settings) ==
    IF cache[g] = None THEN [cache EXCEPT ![g] = Some(settings)] ELSE cache

\* What get_guild_settings puts in the cache for the settings it has read.
CacheStore(cache, g, settings) == [cache EXCEPT ![g] = Some(settings)]

\* get_guild_settings resumes: self._settings_cache[guild_id] = settings; return.
QueryResume(t) ==
    /\ pc[t] = "query_ret"
    /\ settings_cache' = CacheStore(settings_cache, call[t].key, local[t][1])
    /\ pc' = [pc EXCEPT ![t] = "done"]
    /\ ret' = [ret EXCEPT ![t] = Some(Project(call[t].op, local[t][1]))]
    /\ hist' = OnStep(hist, t, call[t], "done")
    /\ UNCHANGED << metadata, cog, connection, botvars >>
    /\ UNCHANGED << is_setup, locked, waiters, schema, guild_settings, points,
                    db_writer, snapshot, call, local >>

\* Worker thread of _upsert_guild_fields: execute().  The single INSERT waits
\* for sqlite's write lock, writes and commits.
WriteRun(t) ==
    /\ pc[t] = "write"
    /\ db_writer = None
    /\ guild_settings' =
         [guild_settings EXCEPT ![call[t].key] =
            UpsertRow(call[t].key, @, MutatorValues(call[t]))]
    /\ snapshot' = AfterCommit(t)
    /\ pc' = [pc EXCEPT ![t] = "write_ret"]
    /\ connection' = [connection EXCEPT ![t] = "open"]
    /\ UNCHANGED << metadata, cog, botvars >>
    /\ UNCHANGED << is_setup, locked, waiters, schema, settings_cache, points,
                    db_writer, call, local, ret, hist >>

\* Mutant of CachePop: self._settings_cache.clear(), which evicts the entries
\* of every guild.
CachePopAll(cache, g) == [h \in Guilds |-> None]

\* self._settings_cache.pop(guild_id, None)
CachePop(cache, g) == [cache EXCEPT ![g] = None]

\* _upsert_guild_fields resumes and evicts the cache entry; the mutator goes on
\* to get_guild_settings(guild_id, use_cache=False), which starts with setup().
WriteResume(t) ==
    /\ pc[t] = "write_ret"
    /\ settings_cache' = CachePop(settings_cache, call[t].key)
    /\ LET o == AwaitSetup(t, call[t], 2, settings_cache')
       IN  /\ pc' = [pc EXCEPT ![t] = o.pc]
           /\ locked' = o.locked
           /\ waiters' = o.waiters
    /\ UNCHANGED << metadata, cog, connection, botvars >>
    /\ UNCHANGED << is_setup, schema, guild_settings, points, db_writer, snapshot,
                    call, local, ret, hist >>

\* Mutant of DeleteRow: the DELETE matches no row.
DeleteRowNothing(table, g) == table

\* DELETE FROM guild_settings WHERE guild_id = ?
DeleteRow(table, g) == [table EXCEPT ![g] = None]

\* Worker thread of clear_guild_settings: execute().
DeleteRun(t) ==
    /\ pc[t] = "delete"
    /\ db_writer = None
    /\ guild_settings' = DeleteRow(guild_settings, call[t].key)
    /\ snapshot' = AfterCommit(t)
    /\ pc' = [pc EXCEPT ![t] = "delete_ret"]
    /\ connection' = [connection EXCEPT ![t] = "open"]
    /\ UNCHANGED << metadata, cog, botvars >>
    /\ UNCHANGED << is_setup, locked, waiters, schema, settings_cache, points,
                    db_writer, call, local, ret, hist >>

\* clear_guild_settings resumes: evicts the cache entry and returns None.
DeleteResume(t) ==
    /\ pc[t] = "delete_ret"
    /\ settings_cache' = CachePop(settings_cache, call[t].key)
    /\ pc' = [pc EXCEPT ![t] = "done"]
    /\ ret' = [ret EXCEPT ![t] = Some(None)]
    /\ hist' = OnStep(hist, t, call[t], "done")
    /\ UNCHANGED << metadata, cog, connection, botvars >>
    /\ UNCHANGED << is_setup, locked, waiters, schema, guild_settings, points,
                    db_writer, snapshot, call, local >>

\* ---------------------------------------------------------------- ledger
\* Worker thread of get_balance: query().
BalanceRun(t) ==
    /\ pc[t] = "bal_query"
    /\ local' = [local EXCEPT ![t] = Some(BalanceOf(call[t].key))]
    /\ pc' = [pc EXCEPT ![t] = "bal_ret"]
    /\ connection' = [connection EXCEPT ![t] = "open"]
    /\ UNCHANGED << metadata, cog, botvars >>
    /\ UNCHANGED << is_setup, locked, waiters, schema, guild_settings,
                    settings_cache, points, db_writer, snapshot, call, ret, hist >>

\* get_balance resumes and returns what the thread read.
BalanceResume(t) ==
    /\ pc[t] = "bal_ret"
    /\ pc' = [pc EXCEPT ![t] = "done"]
    /\ ret' = [ret EXCEPT ![t] = local[t]]
    /\ hist' = OnStep(hist, t, call[t], "done")
    /\ UNCHANGED << metadata, cog, connection, botvars >>
    /\ UNCHANGED << is_setup, locked, waiters, schema, guild_settings,
                    settings_cache, points, db_writer, snapshot, call, local >>

\* Mutant of SnapshotAfterSelect: without the BEGIN the SELECT runs in
\* autocommit mode and no read transaction stays open.
SnapshotNotHeld == "none"

\* conn.execute("BEGIN") opens a transaction, so the SELECT that follows starts
\* a read transaction that stays open, with its snapshot, until the commit.
SnapshotAfterSelect == "fresh"

\* Worker thread of add_balance: sqlite3.connect, BEGIN and SELECT balance.
TxSelect(t) ==
    /\ pc[t] = "tx_select"
    /\ connection' = [connection EXCEPT ![t] = "open"]
    /\ snapshot' = [snapshot EXCEPT ![t] = SnapshotAfterSelect]
    /\ local' = [local EXCEPT ![t] = Some(BalanceOf(call[t].key))]
    /\ pc' = [pc EXCEPT ![t] = "tx_insert"]
    /\ UNCHANGED << metadata, cog, botvars >>
    /\ UNCHANGED << is_setup, locked, waiters, schema, guild_settings,
                    settings_cache, points, db_writer, call, ret, hist >>

\* Mutant of NewBalance: the amount replaces the balance.
NewBalanceOverwrite(current_balance, amount) == amount

\* new_balance = current_balance + amount
NewBalance(current_balance, amount) == current_balance + amount

\* Worker thread of add_balance: computes new_balance and runs the INSERT.
\* The INSERT needs sqlite's write lock.  A connection that holds a read
\* snapshot gets it only if nobody holds it and nothing was committed since
\* the snapshot; otherwise the INSERT raises ("database is locked") and the
\* connection's context manager rolls back.  A connection with no snapshot
\* waits for the lock.
TxInsert(t) ==
    /\ pc[t] = "tx_insert"
    /\ \/ /\ db_writer = None
          /\ snapshot[t] # "stale"
          /\ db_writer' = Some(t)
          /\ local' = [local EXCEPT ![t] = Some(NewBalance(local[t][1], call[t].arg))]
          /\ pc' = [pc EXCEPT ![t] = "tx_commit"]
          /\ snapshot' = snapshot
       \/ /\ snapshot[t] # "none"
          /\ db_writer # None \/ snapshot[t] = "stale"
          /\ snapshot' = [snapshot EXCEPT ![t] = "none"]
          /\ pc' = [pc EXCEPT ![t] = "tx_err"]
          /\ UNCHANGED << db_writer, local >>
    /\ UNCHANGED << metadata, cog, connection, botvars >>
    /\ UNCHANGED << is_setup, locked, waiters, schema, guild_settings,
                    settings_cache, points, call, ret, hist >>

\* Worker thread of add_balance: conn.commit(); return new_balance.
TxCommit(t) ==
    /\ pc[t] = "tx_commit"
    /\ points' = [points EXCEPT ![call[t].key] = local[t]]
    /\ db_writer' = None
    /\ snapshot' = AfterCommit(t)
    /\ pc' = [pc EXCEPT ![t] = "tx_ret"]
    /\ hist' = [hist EXCEPT !.log[call[t].key] =
                  Append(@, << call[t].arg, local[t][1] >>)]
    /\ UNCHANGED << metadata, cog, connection, botvars >>
    /\ UNCHANGED << is_setup, locked, waiters, schema, guild_settings,
                    settings_cache, call, local, ret >>

\* add_balance resumes: returns the new balance, or raises the thread's error.
TxResume(t) ==
    /\ pc[t] \in {"tx_ret", "tx_err"}
    /\ LET npc == IF pc[t] = "tx_ret" THEN "done" ELSE "raised"
       IN  /\ pc' = [pc EXCEPT ![t] = npc]
           /\ ret' = [ret EXCEPT ![t] = IF npc = "done" THEN local[t] ELSE None]
           /\ hist' = OnStep(hist, t, call[t], npc)
    /\ UNCHANGED << metadata, cog, connection, botvars >>
    /\ UNCHANGED << is_setup, locked, waiters, schema, guild_settings,
                    settings_cache, points, db_writer, snapshot, call, local >>

\* The cyclic garbage collector runs: every connection whose unit has ended is
\* unreachable and is closed as it is deallocated.  The connection of a unit
\* that raised stays reachable from the traceback until the coroutine has
\* taken the error.
Collect ==
    /\ \E t \in Tasks : connection[t] = "open" /\ pc[t] \notin InUnit \cup {"tx_err"}
    /\ connection' = [ t \in Tasks |->
                         IF pc[t] \in InUnit \cup {"tx_err"} THEN connection[t]
                         ELSE "none" ]
    /\ UNCHANGED << metadata, cog, botvars >>
    /\ UNCHANGED << is_setup, locked, waiters, schema, guild_settings,
                    settings_cache, points, db_writer, snapshot, pc, call, local,
                    ret, hist >>

\* Worker thread of leaderboard: query().  A call without an argument uses the
\* default limit.
LeaderboardRun(t) ==
    /\ pc[t] = "lb_query"
    /\ LET limit == IF call[t].arg = None THEN DefaultLimit ELSE call[t].arg[1]
       IN  local' = [local EXCEPT ![t] = Some(LeaderboardQuery(points, limit))]
    /\ pc' = [pc EXCEPT ![t] = "lb_ret"]
    /\ connection' = [connection EXCEPT ![t] = "open"]
    /\ UNCHANGED << metadata, cog, botvars >>
    /\ UNCHANGED << is_setup, locked, waiters, schema, guild_settings,
                    settings_cache, points, db_writer, snapshot, call, ret, hist >>

\* leaderboard resumes and returns the list the thread built.
LeaderboardResume(t) ==
    /\ pc[t] = "lb_ret"
    /\ pc' = [pc EXCEPT ![t] = "done"]
    /\ ret' = [ret EXCEPT ![t] = local[t]]
    /\ hist' = OnStep(hist, t, call[t], "done")
    /\ UNCHANGED << metadata, cog, connection, botvars >>
    /\ UNCHANGED << is_setup, locked, waiters, schema, guild_settings,
                    settings_cache, points, db_writer, snapshot, call, local >>

\* ------------------------------------------------------------- metadata
\* Worker thread of record_last_save: execute().  iso_value was computed by
\* the coroutine; the single INSERT waits for sqlite's write lock and commits.
SaveRun(t) ==
    /\ pc[t] = "save_write"
    /\ db_writer = None
    /\ metadata' = MetadataUpsert(metadata, IsoFormat(call[t].arg))
    /\ snapshot' = AfterCommit(t)
    /\ pc' = [pc EXCEPT ![t] = "save_ret"]
    /\ connection' = [connection EXCEPT ![t] = "open"]
    /\ UNCHANGED << cog, botvars >>
    /\ UNCHANGED << is_setup, locked, waiters, schema, guild_settings,
                    settings_cache, points, db_writer, call, local, ret, hist >>

\* record_last_save resumes and returns None.
SaveResume(t) ==
    /\ pc[t] = "save_ret"
    /\ pc' = [pc EXCEPT ![t] = "done"]
    /\ ret' = [ret EXCEPT ![t] = Some(None)]
    /\ hist' = OnStep(hist, t, call[t], "done")
    /\ UNCHANGED << metadata, cog, connection, botvars >>
    /\ UNCHANGED << is_setup, locked, waiters, schema, guild_settings,
                    settings_cache, points, db_writer, snapshot, call, local >>

\* Worker thread of get_last_save: query(), str(row["value"]) if row else None.
LastSaveRun(t) ==
    /\ pc[t] = "save_query"
    /\ local' = [local EXCEPT ![t] = Some(metadata)]
    /\ pc' = [pc EXCEPT ![t] = "save_query_ret"]
    /\ connection' = [connection EXCEPT ![t] = "open"]
    /\ UNCHANGED << metadata, cog, botvars >>
    /\ UNCHANGED << is_setup, locked, waiters, schema, guild_settings,
                    settings_cache, points, db_writer, snapshot, call, ret, hist >>

\* get_last_save resumes: datetime.fromisoformat(value) if value else None.
LastSaveResume(t) ==
    /\ pc[t] = "save_query_ret"
    /\ pc' = [pc EXCEPT ![t] = "done"]
    /\ LET value == local[t][1]
       IN  ret' = [ret EXCEPT ![t] =
                     Some(IF value = None THEN None
                          ELSE IF value[1] = <<>> THEN None
                          ELSE Some(FromIsoFormat(value[1])))]
    /\ hist' = OnStep(hist, t, call[t], "done")
    /\ UNCHANGED << metadata, cog, connection, botvars >>
    /\ UNCHANGED << is_setup, locked, waiters, schema, guild_settings,
                    settings_cache, points, db_writer, snapshot, call, local >>

\* --------------------------------------------------- attributes of the class
\* The coroutine methods the class DatabaseManager defines.
Methods ==
    { "setup", "get_guild_settings", "set_guild_prefix", "reset_guild_prefix",
      "get_prefix", "set_welcome_channel", "set_moderator_role", "set_admin_role",
      "get_welcome_channel_id", "get_moderator_role_id", "get_admin_role_id",
      "clear_guild_settings", "get_balance", "add_balance", "leaderboard",
      "record_last_save", "get_last_save" }

\* A caller evaluates bot.database.<c.op>(...) for a name the class does not
\* define: Python raises AttributeError and nothing of the manager changes.
CallUndefined(t, c) ==
    /\ c.op \notin Methods
    /\ pc[t] \in Resting
    /\ \A s \in Tasks : s < t => pc[s] \notin Resting
    /\ pc' = [pc EXCEPT ![t] = "raised"]
    /\ ret' = [ret EXCEPT ![t] = None]
    /\ call' = [call EXCEPT ![t] = c]
    /\ local' = [local EXCEPT ![t] = None]
    /\ hist' = [ hist EXCEPT !.calls = @ + 1, !.last = t,
                             !.meta = IF c.op = "set_metadata_value"
                                      THEN [ @ EXCEPT ![c.key] = Some(c.arg) ] ELSE @ ]
    /\ UNCHANGED << metadata, cog, connection, botvars >>
    /\ UNCHANGED << is_setup, locked, waiters, schema, guild_settings,
                    settings_cache, points, db_writer, snapshot >>

\* ------------------------------------------------------------ points cog
\* The commands the cog Points defines.
PointsCommands == {"points", "addpoints", "leaderboard"}

\* The replies of the cog's commands.
RejectReply == "Please provide a positive number of points to add."
UpdatedReply(new_total, amount) == << "Points Updated", new_total, amount >>

\* cog_load: _ensure_database takes _init_lock, finds _is_initialised false and
\* dispatches _initialise.
CogLoadStart ==
    /\ cog = "constructed"
    /\ cog' = "initialising"
    /\ UNCHANGED << is_setup, locked, waiters, schema, guild_settings,
                    settings_cache, points, db_writer, snapshot, pc, call, local,
                    ret, hist, metadata, connection, botvars >>

\* _initialise has created the points table if it was missing (the rows of an
\* existing table stay); _ensure_database sets _is_initialised and leaves the
\* lock, cog_load returns and add_cog registers the commands.
CogLoadResume ==
    /\ cog = "initialising"
    /\ cog' = "loaded"
    /\ UNCHANGED << is_setup, locked, waiters, schema, guild_settings,
                    settings_cache, points, db_writer, snapshot, pc, call, local,
                    ret, hist, metadata, connection, botvars >>

\* Where a command invocation stands at its first suspension.  A name that is
\* no command of the cog raises CommandNotFound.  addpoints with amount <= 0
\* sends the rejection and returns.  Otherwise _ensure_database finds the lock
\* free and _is_initialised set (the commands exist only once cog_load has
\* returned) and add_points dispatches its execute().
InvokeEntry(c) ==
    IF c.op \notin PointsCommands THEN [pc |-> "raised", ret |-> None]
    ELSE IF c.arg <= 0 THEN [pc |-> "done", ret |-> Some(RejectReply)]
    ELSE [pc |-> "cog_select", ret |-> None]

\* The command c of the points cog is invoked (its permission checks passed):
\* c.key is the member (addpoints) or the author (daily), c.arg the amount.
Invoke(t, c) ==
    /\ cog = "loaded"
    /\ pc[t] \in Resting
    /\ \A s \in Tasks : s < t => pc[s] \notin Resting
    /\ pc' = [pc EXCEPT ![t] = InvokeEntry(c).pc]
    /\ ret' = [ret EXCEPT ![t] = InvokeEntry(c).ret]
    /\ call' = [call EXCEPT ![t] = c]
    /\ local' = [local EXCEPT ![t] = None]
    /\ hist' = [ hist EXCEPT !.calls = @ + 1, !.seq = @ /\ InFlight = {},
                             !.last = t, !.bal_before = BalanceOf(c.key) ]
    /\ UNCHANGED << metadata, cog, connection, botvars >>
    /\ UNCHANGED << is_setup, locked, waiters, schema, guild_settings,
                    settings_cache, points, db_writer, snapshot >>

\* Worker thread of Points.add_points: the SELECT.  No transaction is open: the
\* statement runs in autocommit mode and its read lock ends with fetchone.
CogSelect(t) ==
    /\ pc[t] = "cog_select"
    /\ local' = [local EXCEPT ![t] = Some(BalanceOf(call[t].key))]
    /\ pc' = [pc EXCEPT ![t] = "cog_insert"]
    /\ connection' = [connection EXCEPT ![t] = "open"]
    /\ UNCHANGED << metadata, cog, botvars >>
    /\ UNCHANGED << is_setup, locked, waiters, schema, guild_settings,
                    settings_cache, points, db_writer, snapshot, call, ret, hist >>

\* new_total = current + amount
NewTotal(current, amount) == current + amount

\* Worker thread of Points.add_points: the INSERT opens a transaction and waits
\* for sqlite's write lock.
CogInsert(t) ==
    /\ pc[t] = "cog_insert"
    /\ db_writer = None
    /\ db_writer' = Some(t)
    /\ local' = [local EXCEPT ![t] = Some(NewTotal(local[t][1], call[t].arg))]
    /\ pc' = [pc EXCEPT ![t] = "cog_commit"]
    /\ UNCHANGED << metadata, cog, connection, botvars >>
    /\ UNCHANGED << is_setup, locked, waiters, schema, guild_settings,
                    settings_cache, points, snapshot, call, ret, hist >>

\* Worker thread of Points.add_points: conn.commit(); return new_total.
CogCommit(t) ==
    /\ pc[t] = "cog_commit"
    /\ points' = [points EXCEPT ![call[t].key] = local[t]]
    /\ db_writer' = None
    /\ snapshot' = AfterCommit(t)
    /\ pc' = [pc EXCEPT ![t] = "cog_ret"]
    /\ UNCHANGED << metadata, cog, connection, botvars >>
    /\ UNCHANGED << is_setup, locked, waiters, schema, guild_settings,
                    settings_cache, call, local, ret, hist >>

\* addpoints resumes with new_total and sends the "Points Updated" embed.
CogResume(t) ==
    /\ pc[t] = "cog_ret"
    /\ pc' = [pc EXCEPT ![t] = "done"]
    /\ ret' = [ret EXCEPT ![t] = Some(UpdatedReply(local[t][1], call[t].arg))]
    /\ hist' = [hist EXCEPT !.credited[call[t].key] = @ + call[t].arg]
    /\ UNCHANGED << metadata, cog, connection, botvars >>
    /\ UNCHANGED << is_setup, locked, waiters, schema, guild_settings,
                    settings_cache, points, db_writer, snapshot, call, local >>

\* ---------------------------------------------------------------- start-up
\* Strings are sequences of one-character strings.  The code points of the
\* characters that occur in the names of the files of the cogs directory.
Letters ==
    << "a", "b", "c", "d", "e", "f", "g", "h", "i", "j", "k", "l", "m",
       "n", "o", "p", "q", "r", "s", "t", "u", "v", "w", "x", "y", "z" >>

CodePoint(ch) ==
    IF ch = "." THEN 46
    ELSE IF ch = "_" THEN 95
    ELSE 96 + (CHOOSE i \in 1..26 : Letters[i] = ch)

\* a < b for str: the first position where they differ decides, and a proper
\* prefix comes first.
StrLess(a, b) ==
    LET n == IF Len(a) < Len(b) THEN Len(a) ELSE Len(b)
        d == { i \in 1..n : a[i] # b[i] }
    IN  IF d = {} THEN Len(a) < Len(b)
        ELSE LET i == CHOOSE k \in d : \A m \in d : k <= m
             IN  CodePoint(a[i]) < CodePoint(b[i])

\* filename.endswith(suffix)
EndsWith(s, suffix) ==
    /\ Len(s) >= Len(suffix)
    /\ SubSeq(s, Len(s) - Len(suffix) + 1, Len(s)) = suffix

\* Path(filename).stem: the name without its last suffix; a leading dot starts
\* no suffix.
Stem(filename) ==
    LET dots == { i \in 2..Len(filename) : filename[i] = "." }
    IN  IF dots = {} THEN filename
        ELSE SubSeq(filename, 1, (CHOOSE i \in dots : \A j \in dots : j <= i) - 1)

DotPy == << ".", "p", "y" >>
InitPy == << "_", "_", "i", "n", "i", "t", "_", "_", ".", "p", "y" >>
CogsDirName == << "c", "o", "g", "s" >>

\* f"{COGS_DIR.name}.{Path(filename).stem}"
ExtensionName(filename) == CogsDirName \o << "." >> \o Stem(filename)

\* The for loop of discover_cogs over os.listdir(COGS_DIR).
RECURSIVE CollectExtensions(_)
CollectExtensions(listing) ==
    IF listing = <<>> THEN <<>>
    ELSE LET filename == Head(listing)
             rest == CollectExtensions(Tail(listing))
         IN  IF ~EndsWith(filename, DotPy) \/ filename = InitPy THEN rest
             ELSE << ExtensionName(filename) >> \o rest

\* Mutant of Sorted: the list is returned in the order of the directory listing.
RECURSIVE Unsorted(_)
Unsorted(xs) == IF xs = <<>> THEN <<>> ELSE << Head(xs) >> \o Unsorted(Tail(xs))

\* sorted(xs) for a list of str: each element is inserted, in list order, after
\* the elements that are not greater (the sort is stable).
RECURSIVE Sorted(_)
Sorted(xs) ==
    IF xs = <<>> THEN <<>>
    ELSE LET x == xs[Len(xs)]
             front == Sorted(SubSeq(xs, 1, Len(xs) - 1))
             k == Cardinality({ i \in 1..Len(front) : ~StrLess(x, front[i]) })
         IN  SubSeq(front, 1, k) \o << x >> \o SubSeq(front, k + 1, Len(front))

\* discover_cogs(), for the listing the operating system returns.
DiscoverCogs(listing) == Sorted(CollectExtensions(listing))

\* Entries of the cogs directory: four of the repository's cogs, the package
\* file and the interpreter's cache directory.
ApiPy == << "a", "p", "i", ".", "p", "y" >>
ErrorHandlerPy ==
    << "e", "r", "r", "o", "r", "_", "h", "a", "n", "d", "l", "e", "r", ".", "p", "y" >>
FunPy == << "f", "u", "n", ".", "p", "y" >>
ModerationPy == << "m", "o", "d", "e", "r", "a", "t", "i", "o", "n", ".", "p", "y" >>
PyCache == << "_", "_", "p", "y", "c", "a", "c", "h", "e", "_", "_" >>
CogsDirEntries == { ApiPy, ErrorHandlerPy, FunPy, ModerationPy, InitPy, PyCache }

\* The lists os.listdir may return for a directory that holds `entries`: each
\* entry once, in an arbitrary order.
Listings(entries) ==
    { l \in [1..Cardinality(entries) -> entries] :
        \A i, j \in 1..Len(l) : i # j => l[i] # l[j] }

ApiCog == ExtensionName(ApiPy)
ErrorHandlerCog == ExtensionName(ErrorHandlerPy)
ModerationCog == ExtensionName(ModerationPy)

\* main(): `await bot.database.setup()`, up to its first suspension.
MainStart(t) ==
    /\ boot = "main"
    /\ Call(t, [op |-> "setup", key |-> 0, arg |-> None])
    /\ boot' = "setup"
    /\ UNCHANGED << cogs_dir, pending, attempts, extensions, bot_log, cmdvars,
                    modvars, apivars, readyvars >>

\* main() resumes after setup().  An error of setup() ends main().  Otherwise
\* load_extensions starts: discover_cogs() lists the directory, and the for
\* loop stands before its first extension, or is over at once.
MainResume(t) ==
    /\ boot = "setup"
    /\ call[t].op = "setup"
    /\ pc[t] \in {"done", "raised"}
    /\ IF pc[t] = "raised"
       THEN /\ boot' = "aborted"
            /\ UNCHANGED << pending, bot_log >>
       ELSE \E listing \in Listings(cogs_dir) :
              /\ pending' = DiscoverCogs(listing)
              /\ boot' = IF pending' = <<>> THEN "started" ELSE "loading"
              /\ bot_log' = IF pending' = <<>>
                            THEN Append(bot_log, << "info", "Starting bot" >>)
                            ELSE bot_log
    /\ UNCHANGED << cogs_dir, attempts, extensions, cmdvars, modvars, apivars,
                    readyvars >>
    /\ UNCHANGED dbvars

\* One round of the for loop of load_extensions: bot.load_extension(extension)
\* returns, or raises an Exception, which is logged; after the last round
\* main() goes on to bot.start.
LoadExtension ==
    /\ boot = "loading"
    /\ LET extension == Head(pending)
           last == Tail(pending) = <<>>
       IN  /\ attempts' = Append(attempts, extension)
           /\ pending' = Tail(pending)
           /\ \E ok \in BOOLEAN :
                LET record == IF ok THEN << "info", "Loaded extension", extension >>
                              ELSE << "exception", "Failed to load extension",
                                      extension >>
                    log1 == Append(bot_log, record)
                IN  /\ extensions' = IF ok THEN extensions \cup {extension}
                                     ELSE extensions
                    /\ bot_log' = IF last
                                  THEN Append(log1, << "info", "Starting bot" >>)
                                  ELSE log1
           /\ boot' = IF last THEN "started" ELSE "loading"
    /\ UNCHANGED << cogs_dir, cmdvars, modvars, apivars, readyvars >>
    /\ UNCHANGED dbvars

\* ----------------------------------------------------------- command errors
\* The coroutines that handle the event command_error: the one main() sets
\* with @bot.event, and the listener of the cog ErrorHandler.
Handlers == { "on_command_error", "ErrorHandler.on_command_error" }

\* Those the bot runs for an event: the bot's own, and the listener once the
\* extension of the cog is loaded.
Registered ==
    { "on_command_error" }
    \cup (IF ErrorHandlerCog \in extensions
          THEN { "ErrorHandler.on_command_error" } ELSE {})

\* The errors a command invocation may raise, by the class the handlers test
\* for; "CommandInvokeError" wraps an exception of the command's body.
CommandErrors ==
    { "CommandNotFound", "MissingRequiredArgument", "BadArgument",
      "MissingPermissions", "BotMissingPermissions", "CheckFailure",
      "CommandInvokeError" }

\* The description each handler writes for the error.
Description(error) ==
    CASE error = "MissingRequiredArgument" -> "Missing argument"
      [] error = "BadArgument" ->
           "I couldn't understand one of the arguments you provided."
      [] error = "MissingPermissions" -> "You are missing permissions"
      [] error = "BotMissingPermissions" -> "I need these permissions"
      [] error = "CheckFailure" -> "You don't have permission to run that command."
      [] OTHER -> "Something went wrong while running that command."

\* A ctx.send call: the title of its embed ("" for plain content), its text,
\* and whether Discord accepted it (else ctx.send raised HTTPException).
Message(title, text, delivered) ==
    [ title |-> title, text |-> text, delivered |-> delivered ]

UhOhEmbed(error, delivered) == Message("Uh oh!", Description(error), delivered)

\* The bot dispatches command_error for an error of the running command: it
\* schedules every registered handler.
Dispatch(error, on_error) ==
    /\ event' = Some([error |-> error, on_error |-> on_error])
    /\ handler' = [ h \in Handlers |-> IF h \in Registered THEN "pending" ELSE "idle" ]

\* No handler of an earlier event is still to run.
Dispatched == \A h \in Handlers : handler[h] \in {"idle", "returned"}

\* A command is invoked and raises: a name that is no command, bad arguments,
\* a failed check, or an exception of the body; the command may have its own
\* on_error.
CommandRaises ==
    /\ boot = "started"
    /\ Dispatched
    /\ invocations < MaxInvocations
    /\ invocations' = invocations + 1
    /\ channel' = <<>>
    /\ \E error \in CommandErrors : \E on_error \in BOOLEAN :
         /\ error = "CommandNotFound" => ~on_error
         /\ Dispatch(error, on_error)
    /\ UNCHANGED << bootvars, bot_log, error_log, modvars, apivars, readyvars >>
    /\ UNCHANGED dbvars

\* A handler starts: it returns at once for a command with on_error and for
\* CommandNotFound; otherwise it builds the embed and awaits ctx.send.
HandlerStart(h) ==
    /\ handler[h] = "pending"
    /\ handler' = [ handler EXCEPT ![h] =
                      IF event[1].on_error \/ event[1].error = "CommandNotFound"
                      THEN "returned" ELSE "sending" ]
    /\ UNCHANGED << bootvars, bot_log, invocations, channel, event, error_log,
                    modvars, apivars, readyvars >>
    /\ UNCHANGED dbvars

\* ctx.send has sent the embed, or raised HTTPException, which the handler
\* passes over; the handler logs the error, the bot's to bot.error_logger and
\* the cog's to the logger "bot", and returns.
HandlerResume(h) ==
    /\ handler[h] = "sending"
    /\ \E delivered \in BOOLEAN :
         channel' = Append(channel, UhOhEmbed(event[1].error, delivered))
    /\ IF h = "on_command_error"
       THEN /\ error_log' = Append(error_log, << "error", event[1].error >>)
            /\ UNCHANGED bot_log
       ELSE /\ bot_log' = Append(bot_log, << "error", "Error in command",
                                             event[1].error >>)
            /\ UNCHANGED error_log
    /\ handler' = [ handler EXCEPT ![h] = "returned" ]
    /\ UNCHANGED << bootvars, invocations, event, modvars, apivars, readyvars >>
    /\ UNCHANGED dbvars

ErrorStep == \E h \in Handlers : HandlerStart(h) \/ HandlerResume(h)

\* -------------------------------------------------------- cogs/moderation.py
\* The prefix commands of the cog that this model follows.
ModCommands == { "kick", "ban", "unban", "setmodrole", "setadminrole" }

\* _enforce_role(ctx, admin=...) as each command calls it.
Admin(command) == command \in {"ban", "unban"}

RoleGetter(command) ==
    IF Admin(command) THEN "get_admin_role_id" ELSE "get_moderator_role_id"

RoleSetter(command) ==
    IF Admin(command) \/ command = "setadminrole"
    THEN "set_admin_role" ELSE "set_moderator_role"

\* The guild the commands are invoked in.
TheGuild == 1

\* An invocation: the command; whether it comes from a guild; whether
\* ctx.author is a discord.Member; for kick and ban whether the target is the
\* author and whether member.top_role >= author.top_role; whether the author
\* owns the guild; the roles the author holds; what the permission checks of
\* the command find ("pass", or the error they raise); and for setmodrole and
\* setadminrole the role argument.  What the first check or guard to fail
\* leaves unread is kept at one value.
ModInvocations ==
    { i \in [ command : ModCommands, guild : BOOLEAN, member : BOOLEAN,
              self : BOOLEAN, outranked : BOOLEAN, owner : BOOLEAN,
              roles : SUBSET Ids,
              checks : {"pass", "MissingPermissions", "BotMissingPermissions"},
              role : OptIds ] :
        /\ ~i.guild => (~i.member /\ i.checks = "pass" /\ ~i.self /\ ~i.outranked)
        /\ ~i.member => (~i.owner /\ i.roles = {})
        /\ i.checks # "pass" =>
               (i.member /\ ~i.self /\ ~i.outranked /\ ~i.owner /\ i.roles = {}
                /\ i.role = None)
        /\ i.self => (i.member /\ ~i.outranked /\ ~i.owner /\ i.roles = {})
        /\ (i.outranked /\ ~i.owner) => i.roles = {}
        /\ i.command \notin {"kick", "ban"} =>
               (~i.self /\ ~i.outranked /\ ~i.owner)
        /\ i.command \notin {"setmodrole", "setadminrole"} => i.role = None
        /\ i.command \in {"setmodrole", "setadminrole"} =>
               (i.roles = {} /\ i.member /\ i.checks # "BotMissingPermissions") }

\* The checks of the decorators, in the order discord.py runs them:
\* guild_only first, then has_permissions and bot_has_permissions.  None when
\* they pass, else the class of the error as the handlers tell it.
CheckError(i) ==
    IF ~i.guild THEN Some("CheckFailure")
    ELSE IF i.checks # "pass" THEN Some(i.checks)
    ELSE None

\* The guards at the head of a command body, in their order: None when the
\* body goes on, else the text it sends before it returns.
BodyGuard(i) ==
    IF ~i.guild THEN Some("This command can only be used in a server.")
    ELSE IF i.command \notin {"kick", "ban"} THEN None
    ELSE IF i.self THEN Some("You can't " \o i.command \o " yourself.")
    ELSE IF ~i.member THEN Some("This command can only be used in a server.")
    ELSE IF i.outranked /\ ~i.owner
    THEN Some("You can't " \o i.command \o " someone with an equal or higher role.")
    ELSE None

\* guild.get_role(role_id): the role while the guild has one of that id.
GetRole(role_id, roles) == IF role_id[1] \in roles THEN role_id ELSE None

\* Mutant of StaleRole: _get_required_role leaves the setting of a role that
\* is gone as it is.
StaleRoleKept(role_id, roles) == FALSE

\* _get_required_role found an id that names no role of the guild.
StaleRole(role_id, roles) == role_id # None /\ GetRole(role_id, roles) = None

\* The role setting the store holds for the command, read past the cache.
StoredRole(command) ==
    Project(RoleGetter(command), RowToSettings(TheGuild, guild_settings[TheGuild]))

\* No command of the cog is running.
ModIdle == IF ctx = None THEN TRUE ELSE ctx[1].stage \in {"returned", "raised"}

\* The running command raises and the bot dispatches command_error.
ModRaise(i, error) ==
    /\ ctx' = Some([ i EXCEPT !.stage = "raised" ])
    /\ UNCHANGED channel
    /\ Dispatch(error, FALSE)

\* A command of the cog is invoked, once the previous invocation and the
\* handlers of its error are through.  The bot runs the checks and converts
\* the arguments, then the body runs to its first await of the store: kick,
\* ban and unban pass their guards and call _enforce_role, setmodrole and
\* setadminrole call the mutator.
ModInvoke(t, inv) ==
    /\ boot = "started"
    /\ ModerationCog \in extensions
    /\ ModIdle /\ Dispatched
    /\ InFlight = {}
    /\ pc[t] \in Resting
    /\ \A s \in Tasks : s < t => pc[s] \notin Resting
    /\ invocations < MaxModInvocations
    /\ invocations' = invocations + 1
    /\ LET i == [ command |-> inv.command, guild |-> inv.guild,
                  member |-> inv.member, self |-> inv.self,
                  outranked |-> inv.outranked, owner |-> inv.owner,
                  roles |-> inv.roles, checks |-> inv.checks, role |-> inv.role,
                  stage |-> "checks", configured |-> StoredRole(inv.command),
                  existing |-> guild_roles, enforced |-> None, acted |-> FALSE ]
           sets == i.command \in {"setmodrole", "setadminrole"}
       IN  IF CheckError(i) # None
           THEN /\ ctx' = Some([ i EXCEPT !.stage = "raised" ])
                /\ channel' = <<>>
                /\ Dispatch(CheckError(i)[1], FALSE)
                /\ UNCHANGED dbvars
           ELSE IF sets /\ i.role # None /\ GetRole(i.role, guild_roles) = None
           THEN /\ ctx' = Some([ i EXCEPT !.stage = "raised" ])
                /\ channel' = <<>>
                /\ Dispatch("BadArgument", FALSE)
                /\ UNCHANGED dbvars
           ELSE IF BodyGuard(i) # None
           THEN /\ ctx' = Some([ i EXCEPT !.stage = "returned" ])
                /\ channel' = << Message("", BodyGuard(i)[1], TRUE) >>
                /\ UNCHANGED << event, handler >>
                /\ UNCHANGED dbvars
           ELSE IF sets
           THEN /\ ctx' = Some([ i EXCEPT !.stage = "role_set" ])
                /\ channel' = <<>>
                /\ UNCHANGED << event, handler >>
                /\ Call(t, [op |-> RoleSetter(i.command), key |-> TheGuild,
                            arg |-> i.role])
           ELSE IF ~i.member
           THEN /\ ctx' = Some([ i EXCEPT !.stage = "returned",
                                          !.enforced = Some(FALSE) ])
                /\ channel' = <<>>
                /\ UNCHANGED << event, handler >>
                /\ UNCHANGED dbvars
           ELSE /\ ctx' = Some([ i EXCEPT !.stage = "role_query" ])
                /\ channel' = <<>>
                /\ UNCHANGED << event, handler >>
                /\ Call(t, [op |-> RoleGetter(i.command), key |-> TheGuild,
                            arg |-> TRUE])
    /\ UNCHANGED << bootvars, bot_log, error_log, guild_roles, apivars, readyvars >>

\* What _enforce_role does with the role _get_required_role returned for the
\* author: None when it allows the command, else the text it sends.
Denial(i, required) ==
    IF required = None THEN None
    ELSE IF required[1] \in i.roles THEN None
    ELSE Some("You need the <@&role> role to use this command.")

\* _enforce_role has returned for the running command: a denied command sends
\* the text and returns, an allowed one goes on to the moderation call.
Enforced(i, required) ==
    IF Denial(i, required) # None
    THEN /\ ctx' = Some([ i EXCEPT !.stage = "returned", !.enforced = Some(FALSE) ])
         /\ channel' = Append(channel, Message("", Denial(i, required)[1], TRUE))
         /\ UNCHANGED << event, handler >>
    ELSE /\ ctx' = Some([ i EXCEPT !.stage = "acting", !.enforced = Some(TRUE) ])
         /\ UNCHANGED << channel, event, handler >>

\* The accessor of the role id has returned to _get_required_role, or raised.
\* An id that names no role has the setting cleared; else _enforce_role
\* decides.
ModRoleId(t) ==
    /\ ctx # None
    /\ ctx[1].stage = "role_query"
    /\ pc[t] \in {"done", "raised"}
    /\ call[t].op = RoleGetter(ctx[1].command)
    /\ LET i == ctx[1]
           role_id == ret[t][1]
       IN  IF pc[t] = "raised"
           THEN ModRaise(i, "CommandInvokeError") /\ UNCHANGED dbvars
           ELSE IF StaleRole(role_id, guild_roles)
           THEN /\ ctx' = Some([ i EXCEPT !.stage = "role_clear" ])
                /\ UNCHANGED << channel, event, handler >>
                /\ Call(t, [op |-> RoleSetter(i.command), key |-> TheGuild,
                            arg |-> None])
           ELSE /\ Enforced(i, IF role_id = None THEN None
                               ELSE GetRole(role_id, guild_roles))
                /\ UNCHANGED dbvars
    /\ UNCHANGED << bootvars, bot_log, invocations, error_log, guild_roles,
                    apivars, readyvars >>

\* The mutator that clears the setting has returned to _get_required_role,
\* which returns None, or it has raised.
ModRoleCleared(t) ==
    /\ ctx # None
    /\ ctx[1].stage = "role_clear"
    /\ pc[t] \in {"done", "raised"}
    /\ call[t].op = RoleSetter(ctx[1].command)
    /\ IF pc[t] = "raised"
       THEN ModRaise(ctx[1], "CommandInvokeError")
       ELSE Enforced(ctx[1], None)
    /\ UNCHANGED << bootvars, bot_log, invocations, error_log, guild_roles,
                    apivars, readyvars >>
    /\ UNCHANGED dbvars

\* The embed a command sends when its moderation call went through.
ActedTitle(command) ==
    CASE command = "kick" -> "Member Kicked"
      [] command = "ban" -> "Member Banned"
      [] command = "unban" -> "User Unbanned"

\* What a command sends when Discord refuses its moderation call.
ActFailedText(command, outcome) ==
    IF command = "unban"
    THEN "Failed to unban that user. Please try again later."
    ELSE IF outcome = "Forbidden"
    THEN "I don't have permission to " \o command \o " that member."
    ELSE "Failed to " \o command \o " that member. Please try again later."

\* The command calls member.kick, member.ban or guild.unban, which goes
\* through or raises Forbidden or HTTPException; the command sends the embed
\* or the text of the failure and returns.
ModAct ==
    /\ ctx # None
    /\ ctx[1].stage = "acting"
    /\ \E outcome \in {"ok", "Forbidden", "HTTPException"} :
         /\ ctx' = Some([ ctx[1] EXCEPT !.stage = "returned", !.acted = TRUE ])
         /\ channel' = Append(channel,
                          IF outcome = "ok"
                          THEN Message(ActedTitle(ctx[1].command), "", TRUE)
                          ELSE Message("", ActFailedText(ctx[1].command, outcome),
                                       TRUE))
    /\ UNCHANGED << bootvars, bot_log, invocations, event, handler, error_log,
                    guild_roles, apivars, readyvars >>
    /\ UNCHANGED dbvars

\* The mutator has returned to setmodrole or setadminrole, which sends its
\* embed, or it has raised.
ModRoleSet(t) ==
    /\ ctx # None
    /\ ctx[1].stage = "role_set"
    /\ pc[t] \in {"done", "raised"}
    /\ call[t].op = RoleSetter(ctx[1].command)
    /\ IF pc[t] = "raised"
       THEN ModRaise(ctx[1], "CommandInvokeError")
       ELSE /\ ctx' = Some([ ctx[1] EXCEPT !.stage = "returned" ])
            /\ channel' = Append(channel,
                             Message(IF ctx[1].command = "setmodrole"
                                     THEN "Moderator Role Updated"
                                     ELSE "Administrator Role Updated", "", TRUE))
            /\ UNCHANGED << event, handler >>
    /\ UNCHANGED << bootvars, bot_log, invocations, error_log, guild_roles,
                    apivars, readyvars >>
    /\ UNCHANGED dbvars

\* A role of the guild is deleted while no command runs.
RoleDeleted(r) ==
    /\ boot = "started"
    /\ ModIdle
    /\ r \in guild_roles
    /\ guild_roles' = guild_roles \ {r}
    /\ UNCHANGED << bootvars, bot_log, cmdvars, ctx, apivars, readyvars >>
    /\ UNCHANGED dbvars

ModStep(t) ==
    \/ \E inv \in ModInvocations : ModInvoke(t, inv)
    \/ ModRoleId(t) \/ ModRoleCleared(t) \/ ModRoleSet(t)

\* --------------------------------------------------------------- cogs/api.py
\* str.lower() on the symbols tried.
Lower(s) ==
    CASE s = "BTC" -> "btc"
      [] s = "Eth" -> "eth"
      [] OTHER -> s

\* The symbols the command crypto is invoked with.
Symbols == { "btc", "BTC", "doge" }

\* The coin listings CoinGecko may answer with: entries of symbol and id, ""
\* for a field that is missing or empty.  The name of a coin only feeds the
\* title of the embed and is left out.
Payloads ==
    { <<>>,
      << [symbol |-> "BTC", id |-> "bitcoin"] >>,
      << [symbol |-> "btc", id |-> "bitcoin"],
         [symbol |-> "", id |-> "nameless"],
         [symbol |-> "Eth", id |-> ""],
         [symbol |-> "btc", id |-> "bitcoin-2"] >> }

\* mapping.setdefault(symbol.lower(), ...) over the entries in order, skipping
\* an entry without symbol or id; the mapping is a set of << symbol, id >>.
RECURSIVE BuildMapping(_, _)
BuildMapping(payload, mapping) ==
    IF payload = <<>> THEN mapping
    ELSE LET entry == Head(payload)
             known == \E p \in mapping : p[1] = Lower(entry.symbol)
         IN  BuildMapping(Tail(payload),
                 IF entry.symbol = "" \/ entry.id = "" \/ known
                 THEN mapping
                 ELSE mapping \cup { << Lower(entry.symbol), entry.id >> })

\* self._coin_map.get(symbol.lower()) is truthy.
Recognised(mapping, symbol) == \E p \in mapping : p[1] = Lower(symbol)

CouldNotReach == "I couldn't reach the crypto service. Please try again later."
NotRecognised == "I don't recognise that cryptocurrency symbol."

\* crypto after _ensure_coin_map has returned with the map `mapping`: a
\* symbol the map lacks is answered at once, for any other the command
\* requests the price.
AfterEnsure(slot, mapping) ==
    IF Recognised(mapping, slot.symbol)
    THEN [ slot EXCEPT !.stage = "pricing" ]
    ELSE [ slot EXCEPT !.stage = "returned", !.reply = NotRecognised ]

\* The listing requests that have completed, with a payload or with a client
\* error.
Completed == { j \in CryptoSlots : crypto[j].fetched \in {"ok", "ClientError"} }

\* The command crypto is invoked with a symbol and runs to its first await:
\* with the map unset _ensure_coin_map issues the listing request, else it
\* returns at once.  Invocations overlap: each is a task of its own.
CryptoInvoke(k, symbol) ==
    /\ boot = "started"
    /\ ApiCog \in extensions
    /\ crypto[k].stage = "idle"
    /\ \A j \in CryptoSlots : j < k => crypto[j].stage # "idle"
    /\ LET slot == [ crypto[k] EXCEPT
                       !.symbol = symbol,
                       !.after = Completed # {},
                       !.after_failed =
                           \E j \in CryptoSlots : crypto[j].fetched = "ClientError" ]
       IN  IF coin_map = None
           THEN /\ crypto' = [ crypto EXCEPT ![k] =
                                 [ slot EXCEPT !.stage = "fetching",
                                               !.requested = TRUE ] ]
                /\ listing_requests' = listing_requests + 1
           ELSE /\ crypto' = [ crypto EXCEPT ![k] = AfterEnsure(slot, coin_map[1]) ]
                /\ UNCHANGED listing_requests
    /\ UNCHANGED << coin_map, bootvars, bot_log, cmdvars, modvars, readyvars >>
    /\ UNCHANGED dbvars

\* The listing request of an invocation completes.  With a payload the map is
\* built and stored and crypto goes on; on aiohttp.ClientError the map is set
\* to {} and the error re-raised to crypto, which answers, logs and returns;
\* any other error (the total timeout raises asyncio.TimeoutError) leaves the
\* map as it is and ends the command with that error.
CryptoListing(k) ==
    /\ crypto[k].stage = "fetching"
    /\ \/ \E payload \in Payloads :
            LET mapping == BuildMapping(payload, {})
            IN  /\ coin_map' = Some(mapping)
                /\ crypto' = [ crypto EXCEPT ![k] =
                                 AfterEnsure([ crypto[k] EXCEPT !.fetched = "ok" ],
                                             mapping) ]
                /\ UNCHANGED bot_log
       \/ /\ coin_map' = Some({})
          /\ crypto' = [ crypto EXCEPT ![k] =
                           [ @ EXCEPT !.stage = "returned",
                                      !.fetched = "ClientError",
                                      !.reply = CouldNotReach ] ]
          /\ bot_log' = Append(bot_log, << "exception",
                                           "CoinGecko listing fetch failed", "" >>)
       \/ /\ crypto' = [ crypto EXCEPT ![k] =
                           [ @ EXCEPT !.stage = "raised", !.fetched = "TimeoutError" ] ]
          /\ UNCHANGED << coin_map, bot_log >>
    /\ UNCHANGED << listing_requests, bootvars, cmdvars, modvars, readyvars >>
    /\ UNCHANGED dbvars

\* The price request of an invocation completes: with prices for the coin,
\* without them, or with a client error; crypto answers and returns.
CryptoPrice(k) ==
    /\ crypto[k].stage = "pricing"
    /\ \E outcome \in {"prices", "none", "ClientError"} :
         /\ crypto' = [ crypto EXCEPT ![k] =
               [ @ EXCEPT !.stage = "returned",
                          !.reply = CASE outcome = "prices" -> "embed"
                                      [] outcome = "none" ->
                                           "I couldn't find pricing data right now."
                                      [] OTHER -> CouldNotReach ] ]
         /\ IF outcome = "ClientError"
            THEN bot_log' = Append(bot_log, << "exception",
                                               "Crypto lookup failed", "" >>)
            ELSE UNCHANGED bot_log
    /\ UNCHANGED << coin_map, listing_requests, bootvars, cmdvars, modvars,
                    readyvars >>
    /\ UNCHANGED dbvars

CryptoStep(k) ==
    \/ \E symbol \in Symbols : CryptoInvoke(k, symbol)
    \/ CryptoListing(k) \/ CryptoPrice(k)

\* ------------------------------------------------------------ bot.on_ready
\* Discord delivers on_ready, which it does again after a reconnect; the bot
\* runs the handler as a task of its own.  The handler logs the connection
\* and, with the flag unset, calls bot.tree.sync() and awaits it.
ReadyStart(k) ==
    /\ boot = "started"
    /\ ready[k].stage = "idle"
    /\ \A j \in ReadyEvents : j < k => ready[j].stage # "idle"
    /\ IF ~slash_synced
       THEN /\ ready' = [ ready EXCEPT ![k].stage = "syncing" ]
            /\ syncs' = syncs + 1
       ELSE /\ ready' = [ ready EXCEPT ![k].stage = "returned" ]
            /\ UNCHANGED syncs
    /\ bot_log' = Append(bot_log, << "info", "connected", "" >>)
    /\ UNCHANGED << slash_synced, bootvars, cmdvars, modvars, apivars >>
    /\ UNCHANGED dbvars

\* bot.tree.sync() returns or raises; the handler logs the one or the other,
\* sets the flag in its finally clause and returns.
ReadyResume(k) ==
    /\ ready[k].stage = "syncing"
    /\ \E outcome \in {"ok", "raised"} :
         /\ ready' = [ ready EXCEPT ![k] = [stage |-> "returned", sync |-> outcome] ]
         /\ bot_log' = Append(bot_log,
                          IF outcome = "ok"
                          THEN << "info", "Synced application commands", "" >>
                          ELSE << "exception",
                                  "Failed to sync application commands", "" >>)
    /\ slash_synced' = TRUE
    /\ UNCHANGED << syncs, bootvars, cmdvars, modvars, apivars >>
    /\ UNCHANGED dbvars

ReadyStep(k) == ReadyStart(k) \/ ReadyResume(k)

\* ------------------------------------------------------------ the calls
Amounts == {-1, 0, 2}

SetupCalls == { [op |-> "setup", key |-> 0, arg |-> None] }

AccessorCalls(G) ==
    { [op |-> "get_guild_settings", key |-> g, arg |-> b] : g \in G, b \in BOOLEAN }
    \cup { [op |-> o, key |-> g, arg |-> TRUE] :
             o \in Accessors \ {"get_guild_settings"}, g \in G }

MutatorCalls(G, P) ==
    { [op |-> "set_guild_prefix", key |-> g, arg |-> p] : g \in G, p \in P }
    \cup { [op |-> "reset_guild_prefix", key |-> g, arg |-> None] : g \in G }
    \cup { [op |-> o, key |-> g, arg |-> v] :
             o \in {"set_welcome_channel", "set_moderator_role", "set_admin_role"},
             g \in G, v \in OptIds }

ClearCalls(G) == { [op |-> "clear_guild_settings", key |-> g, arg |-> None] : g \in G }

LedgerCalls ==
    { [op |-> "add_balance", key |-> u, arg |-> a] : u \in Users, a \in Amounts }
    \cup { [op |-> "get_balance", key |-> u, arg |-> None] : u \in Users }

\* The limits tried by leaderboard; None is the call without an argument.
Limits == {None} \cup { Some(n) : n \in -1..3 }

LeaderboardCalls == { [op |-> "leaderboard", key |-> 0, arg |-> l] : l \in Limits }

\* The timestamps tried by record_last_save: naive, UTC and UTC-05:30, with
\* and without microseconds.
Datetimes ==
    [ minute : {7}, second : {5, 59}, microsecond : {0, 999999},
      tzinfo : {None, Some(0), Some(-330)} ]

SaveCalls ==
    { [op |-> "record_last_save", key |-> 0, arg |-> d] : d \in Datetimes }
    \cup { [op |-> "get_last_save", key |-> 0, arg |-> None] }

\* Reads of entities that may or may not exist, and the calls that create and
\* delete the row of a guild.
ReadCalls ==
    { [op |-> "get_guild_settings", key |-> 1, arg |-> b] : b \in BOOLEAN }
    \cup { [op |-> "get_balance", key |-> 1, arg |-> None],
           [op |-> "get_last_save", key |-> 0, arg |-> None],
           [op |-> "set_welcome_channel", key |-> 1, arg |-> Some(1)],
           [op |-> "clear_guild_settings", key |-> 1, arg |-> None] }

\* Calls that may overlap: the guild-settings operations on one guild.
ConcurrentCalls ==
    SetupCalls \cup AccessorCalls({1}) \cup ClearCalls({1})
    \cup MutatorCalls({1}, ConcurrentPrefixInputs)

\* Calls made one after the other.
SequentialCalls ==
    AccessorCalls({1}) \cup ClearCalls({1}) \cup MutatorCalls({1}, PrefixInputs)

CallConcurrent(t) ==
    /\ hist.calls < MaxCalls
    /\ \E c \in ConcurrentCalls : Call(t, c)
    /\ UNCHANGED botvars

CallLedger(t) ==
    /\ hist.calls < MaxCalls
    /\ \E c \in LedgerCalls : Call(t, c)
    /\ UNCHANGED botvars

\* The sequential caller makes a call only when its previous call has returned
\* or raised.
CallSequential(t) ==
    /\ hist.calls < MaxSeqCalls
    /\ InFlight = {}
    /\ \E c \in SequentialCalls : Call(t, c)
    /\ UNCHANGED botvars

CallSequentialLedger(t) ==
    /\ hist.calls < MaxSeqCalls
    /\ InFlight = {}
    /\ \E c \in LedgerCalls : Call(t, c)
    /\ UNCHANGED botvars

CallSequentialBoard(t) ==
    /\ hist.calls < MaxSeqCalls
    /\ InFlight = {}
    /\ \E c \in LeaderboardCalls
                \cup { d \in LedgerCalls : d.op = "add_balance" } : Call(t, c)
    /\ UNCHANGED botvars

CallSequentialSave(t) ==
    /\ hist.calls < MaxSeqCalls
    /\ InFlight = {}
    /\ \E c \in SaveCalls : Call(t, c)
    /\ UNCHANGED botvars

CallRead(t) ==
    /\ hist.calls < MaxReadCalls
    /\ \E c \in ReadCalls : Call(t, c)
    /\ UNCHANGED botvars

\* One call of every kind of operation of the manager, on either guild and for
\* either user.
ManagerCalls ==
    SetupCalls
    \cup { [op |-> "get_guild_settings", key |-> g, arg |-> TRUE] : g \in Guilds }
    \cup { [op |-> "set_moderator_role", key |-> g, arg |-> Some(1)] : g \in Guilds }
    \cup ClearCalls(Guilds)
    \cup { [op |-> "get_balance", key |-> u, arg |-> None] : u \in Users }
    \cup { [op |-> "add_balance", key |-> u, arg |-> 2] : u \in Users }
    \cup { [op |-> "leaderboard", key |-> 0, arg |-> None],
           [op |-> "record_last_save", key |-> 0,
            arg |-> [minute |-> 7, second |-> 5, microsecond |-> 0,
                     tzinfo |-> Some(0)]],
           [op |-> "get_last_save", key |-> 0, arg |-> None] }

CallManager(t) ==
    /\ hist.calls < MaxCalls
    /\ \E c \in ManagerCalls : Call(t, c)
    /\ UNCHANGED botvars

\* get_prefix with and without a guild.
PrefixReadCalls == { [op |-> "get_prefix", key |-> k, arg |-> TRUE] : k \in {0, 1} }

\* What may overlap a get_prefix: setup() and the writes of the prefix.
PrefixWriteCalls ==
    SetupCalls
    \cup { [op |-> "set_guild_prefix", key |-> 1, arg |-> Some(<< " ", "*", "\t" >>)],
           [op |-> "reset_guild_prefix", key |-> 1, arg |-> None] }

CallPrefixRead(t) ==
    /\ hist.calls < MaxCalls
    /\ \E c \in PrefixReadCalls : CallGetPrefix(t, c)

CallPrefixWrite(t) ==
    /\ hist.calls < MaxCalls
    /\ \E c \in PrefixWriteCalls : Call(t, c)
    /\ UNCHANGED botvars

\* The metadata accessors that callers of the manager use.
MetadataValues == {"a", "b"}

MetadataApiCalls ==
    { [op |-> "get_metadata_value", key |-> k, arg |-> None] : k \in MetadataKeys }
    \cup { [op |-> "set_metadata_value", key |-> k, arg |-> v] :
             k \in MetadataKeys, v \in MetadataValues }

CallSequentialMetadata(t) ==
    /\ hist.calls < MaxSeqCalls
    /\ InFlight = {}
    /\ \/ \E c \in MetadataApiCalls : CallUndefined(t, c)
       \/ \E c \in SaveCalls : c.arg = None /\ Call(t, c) /\ UNCHANGED botvars

\* The invocations of the points cog: addpoints for a member with an amount,
\* daily for its author.
PointAmounts == {-1, 0, 1, 2}

PointsInvocations ==
    { [op |-> "addpoints", key |-> u, arg |-> a] : u \in Users, a \in PointAmounts }
    \cup { [op |-> "daily", key |-> u, arg |-> 0] : u \in Users }

InvokePoints(t) ==
    /\ hist.calls < MaxCalls
    /\ \E c \in PointsInvocations : Invoke(t, c)

\* ------------------------------------------------------- specifications
\* The process has started, main() has constructed the manager and the bot,
\* and the database file does not exist yet.  The cogs directory is one of
\* `directories`.
InitWith(directories) ==
    /\ cogs_dir \in directories
    /\ is_setup = FALSE
    /\ locked = FALSE
    /\ waiters = <<>>
    /\ schema = FALSE
    /\ guild_settings = [g \in Guilds |-> None]
    /\ settings_cache = [g \in Guilds |-> None]
    /\ points = [u \in Users |-> None]
    /\ db_writer = None
    /\ snapshot = [t \in Tasks |-> "none"]
    /\ pc = [t \in Tasks |-> "idle"]
    /\ call = [t \in Tasks |-> [op |-> "none", key |-> 0, arg |-> None]]
    /\ local = [t \in Tasks |-> None]
    /\ ret = [t \in Tasks |-> None]
    /\ metadata = None
    /\ cog = "constructed"
    /\ connection = [t \in Tasks |-> "none"]
    /\ slash_synced = FALSE
    /\ boot = "main"
    /\ pending = <<>>
    /\ attempts = <<>>
    /\ extensions = {}
    /\ bot_log = <<>>
    /\ invocations = 0
    /\ channel = <<>>
    /\ event = None
    /\ handler = [h \in Handlers |-> "idle"]
    /\ error_log = <<>>
    /\ ctx = None
    /\ guild_roles = Ids
    /\ coin_map = None
    /\ crypto = [ k \in CryptoSlots |->
                   [ stage |-> "idle", symbol |-> "", reply |-> "",
                     requested |-> FALSE, fetched |-> "none",
                     after |-> FALSE, after_failed |-> FALSE ] ]
    /\ listing_requests = 0
    /\ ready = [k \in ReadyEvents |-> [stage |-> "idle", sync |-> "none"]]
    /\ syncs = 0
    /\ hist = [ calls |-> 0, seq |-> TRUE, last |-> 1, alone |-> TRUE,
                stale |-> FALSE,
                before |-> None,
                done |-> [g \in Guilds |-> None],
                was_stale |-> [g \in Guilds |-> FALSE],
                cleared |-> [g \in Guilds |-> FALSE],
                prefix |-> [g \in Guilds |-> None],
                init_runs |-> 0, init_fails |-> 0,
                log |-> [u \in Users |-> <<>>],
                credited |-> [u \in Users |-> 0],
                saves |-> 0, saved |-> None,
                meta |-> [k \in MetadataKeys |-> None], bal_before |-> 0 ]

\* The cogs directory is as the repository has it.
Init == InitWith({CogsDirEntries})

SetupStep(t) == LockResume(t) \/ InitRun(t) \/ InitResume(t)

SettingsStep(t) ==
    \/ QueryRun(t) \/ QueryResume(t)
    \/ WriteRun(t) \/ WriteResume(t)
    \/ DeleteRun(t) \/ DeleteResume(t)

LedgerStep(t) ==
    \/ BalanceRun(t) \/ BalanceResume(t)
    \/ TxSelect(t) \/ TxInsert(t) \/ TxCommit(t) \/ TxResume(t)

\* Overlapping callers of setup() and of the guild-settings operations.
NextSettings ==
    \E t \in Tasks : CallConcurrent(t) \/ SetupStep(t) \/ SettingsStep(t)

SpecSettings == Init /\ [][NextSettings]_vars

\* Overlapping callers of the ledger operations.
NextLedger ==
    \E t \in Tasks : CallLedger(t) \/ SetupStep(t) \/ LedgerStep(t)

SpecLedger == Init /\ [][NextLedger]_vars

\* One caller of the guild-settings operations that awaits each call before it
\* makes the next.
NextSequential ==
    \E t \in Tasks :
        \/ CallSequential(t)
        \/ InitRun(t) \/ InitResume(t)
        \/ SettingsStep(t)

SpecSequential == Init /\ [][NextSequential]_vars

\* One caller of the ledger operations that awaits each call before it makes
\* the next.
NextSequentialLedger ==
    \E t \in Tasks :
        \/ CallSequentialLedger(t)
        \/ InitRun(t) \/ InitResume(t)
        \/ BalanceRun(t) \/ BalanceResume(t)
        \/ TxSelect(t) \/ TxInsert(t) \/ TxCommit(t) \/ TxResume(t)

SpecSequentialLedger == Init /\ [][NextSequentialLedger]_vars

BoardStep(t) == LeaderboardRun(t) \/ LeaderboardResume(t)

SaveStep(t) == SaveRun(t) \/ SaveResume(t) \/ LastSaveRun(t) \/ LastSaveResume(t)

\* One caller of add_balance and leaderboard.
NextSequentialBoard ==
    \E t \in Tasks :
        \/ CallSequentialBoard(t)
        \/ InitRun(t) \/ InitResume(t)
        \/ TxSelect(t) \/ TxInsert(t) \/ TxCommit(t) \/ TxResume(t)
        \/ BoardStep(t)

SpecSequentialBoard == Init /\ [][NextSequentialBoard]_vars

\* One caller of record_last_save and get_last_save.
NextSequentialSave ==
    \E t \in Tasks :
        \/ CallSequentialSave(t)
        \/ InitRun(t) \/ InitResume(t)
        \/ SaveStep(t)

SpecSequentialSave == Init /\ [][NextSequentialSave]_vars

\* Overlapping callers that read a balance, the settings of a guild and the
\* last save, and that set and clear the settings of the guild.
NextRead ==
    \E t \in Tasks :
        \/ CallRead(t)
        \/ SetupStep(t)
        \/ SettingsStep(t)
        \/ BalanceRun(t) \/ BalanceResume(t)
        \/ LastSaveRun(t) \/ LastSaveResume(t)

SpecRead == Init /\ [][NextRead]_vars

\* The bot process starts: main() sets up the store and loads the cogs.
BootStep ==
    \/ \E t \in Tasks : MainStart(t) \/ InitRun(t) \/ InitResume(t) \/ MainResume(t)
    \/ LoadExtension

NextStartup == BootStep

\* The cogs directory holds any of the entries.
InitStartup == InitWith(SUBSET CogsDirEntries)

SpecStartup == InitStartup /\ [][NextStartup]_vars

\* The bot starts, and commands raise errors that the bot dispatches.
NextErrors == BootStep \/ CommandRaises \/ ErrorStep

SpecErrors == Init /\ [][NextErrors]_vars

\* The bot starts, and commands of the cog Moderation are invoked one after
\* the other, while roles of the guild may be deleted.
NextModeration ==
    \/ BootStep
    \/ \E t \in Tasks : ModStep(t) \/ QueryRun(t) \/ QueryResume(t)
                                   \/ WriteRun(t) \/ WriteResume(t)
    \/ ModAct
    \/ \E r \in Ids : RoleDeleted(r)
    \/ ErrorStep

\* The cogs directory holds the two cogs the commands depend on.
InitModeration == InitWith({{ErrorHandlerPy, ModerationPy}})

SpecModeration == InitModeration /\ [][NextModeration]_vars

\* The bot starts, and invocations of the command crypto overlap.
NextCrypto == BootStep \/ \E k \in CryptoSlots : CryptoStep(k)

SpecCrypto == Init /\ [][NextCrypto]_vars

\* The bot starts, and on_ready events arrive whose handlers may overlap.
NextReady == BootStep \/ \E k \in ReadyEvents : ReadyStep(k)

SpecReady == Init /\ [][NextReady]_vars

\* Overlapping callers of all the operations of the manager.
NextManager ==
    \/ Collect
    \/ \E t \in Tasks :
        \/ CallManager(t)
        \/ SetupStep(t) \/ SettingsStep(t) \/ LedgerStep(t)
        \/ BoardStep(t) \/ SaveStep(t)

SpecManager == Init /\ [][NextManager]_vars

\* Overlapping callers of get_prefix, with and without a guild, of setup() and
\* of the prefix mutators.
NextPrefix ==
    \E t \in Tasks :
        \/ CallPrefixRead(t) \/ CallPrefixWrite(t)
        \/ SetupStep(t)
        \/ QueryRun(t) \/ QueryResume(t) \/ WriteRun(t) \/ WriteResume(t)

SpecPrefix == Init /\ [][NextPrefix]_vars

\* One caller of get_metadata_value, set_metadata_value and get_last_save.
NextSequentialMetadata ==
    \E t \in Tasks :
        \/ CallSequentialMetadata(t)
        \/ InitRun(t) \/ InitResume(t)
        \/ LastSaveRun(t) \/ LastSaveResume(t)

SpecSequentialMetadata == Init /\ [][NextSequentialMetadata]_vars

\* The points cog is loaded and its commands run, overlapping.
NextPoints ==
    \/ CogLoadStart \/ CogLoadResume
    \/ \E t \in Tasks :
          \/ InvokePoints(t)
          \/ CogSelect(t) \/ CogInsert(t) \/ CogCommit(t) \/ CogResume(t)

SpecPoints == Init /\ [][NextPoints]_vars

Next == NextSettings \/ NextLedger

Spec == Init /\ [][Next]_vars

\* ------------------------------------------------------------ properties
\* The calls on guild g that are in flight.
OnGuild(g) ==
    { t \in Tasks : pc[t] \notin Resting /\ call[t].op \in GuildOps /\ call[t].key = g }

\* The column a mutator is meant to change.
OwnColumn(op) ==
    CASE op \in {"set_guild_prefix", "reset_guild_prefix"} -> "prefix"
      [] op = "set_welcome_channel" -> "welcome_channel_id"
      [] op = "set_moderator_role"  -> "mod_role_id"
      [] op = "set_admin_role"      -> "admin_role_id"

\* The GuildSettings of a guild without a row.
AllNull(g) ==
    [ guild_id |-> g, prefix |-> None, welcome_channel_id |-> None,
      mod_role_id |-> None, admin_role_id |-> None ]

\* The GuildSettings that the store holds for g now.
Stored(g) ==
    IF guild_settings[g] = None THEN AllNull(g)
    ELSE [ f \in Fields \cup {"guild_id"} |-> guild_settings[g][1][f] ]

\* C1: whenever no guild-settings call on guild g is in flight, the cache entry
\* of g, if there is one, equals the row the store holds for g (all null when
\* the store has no row).
C1_CacheMatchesStoreAtRest ==
    \A g \in Guilds :
        (OnGuild(g) = {} /\ settings_cache[g] # None)
            => settings_cache[g][1] = Stored(g)

\* The pc values of a call that has not yet got through its first setup().
BeforeSetup == {"lock_wait", "init", "init_ok", "init_err"}

\* C3: _initialise succeeds at most once, never runs on two threads at once,
\* and a call gets past setup() only when the store has been marked ready after
\* exactly one successful _initialise.
C3_SchemaCreatedOnce ==
    /\ hist.init_runs - hist.init_fails <= 1
    /\ Cardinality({ t \in Tasks : pc[t] \in {"init", "init_ok", "init_err"} }) <= 1
    /\ \A t \in Tasks :
         pc[t] \notin ({"idle", "raised"} \cup BeforeSetup)
            => is_setup /\ schema /\ hist.init_runs - hist.init_fails = 1

\* C3 witness: overlapping calls of setup() have all returned after one _initialise.
C3_Witness ==
    /\ ~hist.seq
    /\ hist.init_runs = 1
    /\ \A t \in Tasks : pc[t] = "done" /\ call[t].op = "setup"

\* C6: the write of a guild-settings mutator on guild g leaves g with a row
\* whose other three columns are what they were (null when there was no row).
C6_MutatorWritesOwnColumnOnly ==
    [][ \A t \in Tasks :
          (pc[t] = "write" /\ pc'[t] = "write_ret") =>
            LET g == call[t].key
                old == guild_settings[g]
                new == guild_settings'[g]
            IN  /\ new # None
                /\ new[1].guild_id = g
                /\ \A f \in Fields \ {OwnColumn(call[t].op)} :
                     new[1][f] = IF old = None THEN None ELSE old[1][f]
      ]_vars

\* C6 witness: set_welcome_channel(g, None) has written while the moderator role
\* of g is set.
C6_Witness ==
    \E t \in Tasks :
        /\ pc[t] = "write_ret"
        /\ call[t].op = "set_welcome_channel"
        /\ call[t].arg = None
        /\ guild_settings[call[t].key] # None
        /\ guild_settings[call[t].key][1].mod_role_id # None
        /\ guild_settings[call[t].key][1].welcome_channel_id = None

\* The step in which the call of task t gets past its first setup().
StartsBody(t) ==
    /\ pc'[t] \in {"query", "done"}
    /\ \/ pc[t] \in Resting /\ hist'.calls # hist.calls /\ hist'.last = t
       \/ pc[t] \in {"lock_wait", "init_ok"}

\* C8: an accessor that finds a cache entry, and was not told to bypass the
\* cache, returns without a query and get_guild_settings returns that entry;
\* otherwise it queries the store, and on resuming makes what the query read
\* the cache entry, whatever the cache held, and returns it.
C8_CacheFirstRead ==
    [][ \A t \in Tasks :
          call'[t].op \in Accessors =>
            LET c == call'[t]
                g == call'[t].key
            IN  /\ StartsBody(t) =>
                     IF c.arg /\ settings_cache[g] # None
                     THEN /\ pc'[t] = "done"
                          /\ local'[t] = None
                          /\ settings_cache' = settings_cache
                          /\ c.op = "get_guild_settings" => ret'[t] = settings_cache[g]
                     ELSE pc'[t] = "query"
                /\ (pc[t] = "query" /\ pc'[t] = "query_ret")
                     => local'[t] = Some(Stored(g))
                /\ (pc[t] = "query_ret" /\ pc'[t] # "query_ret")
                     => /\ pc'[t] = "done"
                        /\ settings_cache'[g] = local[t]
                        /\ c.op = "get_guild_settings" => ret'[t] = local[t]
                /\ (pc'[t] = "done" /\ pc[t] # "done")
                     => pc[t] = "query_ret" \/ StartsBody(t)
      ]_vars

\* C8 witness: one get_guild_settings has returned the cache entry without a
\* query, another one has bypassed the cache and queried.
C8_Witness ==
    \E t, s \in Tasks :
        /\ pc[t] = "done" /\ call[t].op = "get_guild_settings" /\ call[t].arg
        /\ local[t] = None
        /\ ret[t] = settings_cache[call[t].key]
        /\ pc[s] = "done" /\ call[s].op = "get_guild_settings" /\ ~call[s].arg
        /\ call[s].key = call[t].key
        /\ local[s] # None

\* The positions of the characters of s that are not whitespace.
NonBlank(s) == { i \in 1..Len(s) : s[i] \notin Whitespace }

\* s without its leading and trailing whitespace.
Trimmed(s) ==
    IF NonBlank(s) = {} THEN <<>>
    ELSE SubSeq(s, CHOOSE i \in NonBlank(s) : \A j \in NonBlank(s) : i <= j,
                   CHOOSE i \in NonBlank(s) : \A j \in NonBlank(s) : j <= i)

\* The value a mutator call is meant to write to its column.
ExpectedWritten(c) ==
    CASE c.op = "set_guild_prefix" ->
            IF c.arg = None THEN None
            ELSE IF Trimmed(c.arg[1]) = <<>> THEN None ELSE Some(Trimmed(c.arg[1]))
      [] c.op = "reset_guild_prefix" -> None
      [] OTHER -> c.arg

\* C9: a mutator returns only what a store query read after the mutator's own
\* write had returned, never a cache entry; and a mutator that no call
\* overlapped returns the store's row, with the value written in its column.
C9_MutatorReturnsReload ==
    /\ [][ \A t \in Tasks :
             (call[t].op \in Mutators /\ pc[t] \notin Resting) =>
               /\ (pc'[t] \in {"query", "reload_lock_wait"} /\ pc'[t] # pc[t])
                    => pc[t] \in {"write_ret", "reload_lock_wait"}
               /\ (pc[t] = "query" /\ pc'[t] = "query_ret")
                    => local'[t] = Some(Stored(call[t].key))
               /\ pc'[t] = "done"
                    => pc[t] = "query_ret" /\ ret'[t] = local[t]
         ]_vars
    /\ [](hist.seq =>
            LET t == hist.last
                c == call[t]
            IN  (pc[t] = "done" /\ c.op \in Mutators) =>
                   /\ ret[t] = Some(Stored(c.key))
                   /\ ret[t][1][OwnColumn(c.op)] = ExpectedWritten(c))

\* C9 witness: a mutator that another call overlapped has returned settings
\* whose column no longer holds the value it wrote.
C9_Witness ==
    \E t \in Tasks :
        /\ pc[t] = "done"
        /\ call[t].op \in Mutators
        /\ ~hist.seq
        /\ ret[t][1][OwnColumn(call[t].op)] # ExpectedWritten(call[t])

\* ---------------------------------------------------- sequential callers
\* The latest call, when the caller is sequential and the call has returned.
Returned(ops) ==
    /\ hist.seq
    /\ pc[hist.last] = "done"
    /\ call[hist.last].op \in ops

\* What an accessor is meant to return for GuildSettings whose column f is v.
Shown(op, f, v) ==
    CASE op = "get_prefix" -> IF v = None THEN DefaultPrefix ELSE v[1]
      [] OTHER -> v

\* The column an accessor returns; get_guild_settings returns them all.
Reads(op, f) ==
    CASE op = "get_guild_settings"     -> TRUE
      [] op = "get_prefix"             -> f = "prefix"
      [] op = "get_welcome_channel_id" -> f = "welcome_channel_id"
      [] op = "get_moderator_role_id"  -> f = "mod_role_id"
      [] op = "get_admin_role_id"      -> f = "admin_role_id"

\* The value the accessor call of task t returned for column f.
ReturnedValue(t, f) ==
    IF call[t].op = "get_guild_settings" THEN ret[t][1][f] ELSE ret[t][1]

\* C4: for a sequential caller, the accessor called right after a mutator of
\* the same guild has returned gives the value that mutator wrote to its column.
C4_NoStaleReadAfterWrite ==
    LET t == hist.last
    IN  (Returned(Accessors) /\ hist.before # None) =>
           LET m == hist.before[1]
           IN  (m.op \in Mutators /\ Reads(call[t].op, OwnColumn(m.op))) =>
                  IF call[t].op = "get_guild_settings"
                  THEN ReturnedValue(t, OwnColumn(m.op)) = ExpectedWritten(m)
                  ELSE ReturnedValue(t, OwnColumn(m.op))
                         = Shown(call[t].op, OwnColumn(m.op), ExpectedWritten(m))

\* C4 witness: an accessor has returned the column of the mutator before it,
\* and the cache held another value for that column when the mutator was called.
C4_Witness ==
    /\ Returned(Accessors)
    /\ hist.before # None
    /\ hist.before[1].op \in Mutators
    /\ Reads(call[hist.last].op, OwnColumn(hist.before[1].op))
    /\ hist.was_stale[call[hist.last].key]

\* C7: for a sequential caller, get_prefix(g) gives the default prefix when no
\* prefix was ever set for g, after reset_guild_prefix(g), and after
\* set_guild_prefix(g, p) with p null, empty or blank; after any other
\* set_guild_prefix(g, p) it gives p without its surrounding whitespace.
C7_PrefixRoundTrip ==
    LET t == hist.last
        g == call[t].key
    IN  Returned({"get_prefix"}) =>
           IF hist.prefix[g] = None THEN ret[t] = Some(DefaultPrefix)
           ELSE LET m == hist.prefix[g][1]
                IN  CASE m.op = "reset_guild_prefix" -> ret[t] = Some(DefaultPrefix)
                      [] m.op = "set_guild_prefix" ->
                           IF m.arg = None THEN ret[t] = Some(DefaultPrefix)
                           ELSE IF NonBlank(m.arg[1]) = {} THEN ret[t] = Some(DefaultPrefix)
                           ELSE ret[t] = Some(Trimmed(m.arg[1]))
                      [] OTHER -> TRUE

\* C7 witness: get_prefix has returned "*" after set_guild_prefix(g, " *<tab>").
C7_Witness ==
    /\ Returned({"get_prefix"})
    /\ hist.prefix[call[hist.last].key] # None
    /\ hist.prefix[call[hist.last].key][1].op = "set_guild_prefix"
    /\ hist.prefix[call[hist.last].key][1].arg = Some(<<" ", "*", "\t">>)
    /\ ret[hist.last] = Some(<<"*">>)

\* C10: for a sequential caller, when clear_guild_settings(g) has returned the
\* store has no row and the cache no entry for g, and every accessor of g
\* called before the next mutator of g returns the all-null default (get_prefix
\* the default prefix) and does not raise.
C10_ClearForgetsGuild ==
    LET t == hist.last
        g == call[t].key
    IN  /\ Returned({"clear_guild_settings"})
           => guild_settings[g] = None /\ settings_cache[g] = None
        /\ (hist.seq /\ call[t].op \in Accessors /\ pc[t] \in Resting /\ hist.cleared[g])
           => /\ pc[t] = "done"
              /\ guild_settings[g] = None
              /\ IF call[t].op = "get_guild_settings" THEN ret[t] = Some(AllNull(g))
                 ELSE ret[t] = Some(Shown(call[t].op, "any", None))

\* C10 witness: get_prefix has returned the default prefix after a
\* clear_guild_settings that was called while the cache held settings of the
\* guild that were not all null.
C10_Witness ==
    /\ Returned({"get_prefix"})
    /\ hist.cleared[call[hist.last].key]
    /\ hist.was_stale[call[hist.last].key]
    /\ hist.before # None
    /\ hist.before[1].op = "clear_guild_settings"

\* ---------------------------------------------------------------- ledger
\* The add_balance calls on user u that are in flight.
Crediting(u) ==
    { t \in Tasks : pc[t] \notin Resting /\ call[t].op = "add_balance" /\ call[t].key = u }

\* C2: whenever no add_balance on user u is in flight, the balance stored for u
\* is the sum of the amounts of the add_balance calls on u that returned; the
\* committed totals are the partial sums of the amounts in commit order, and
\* every add_balance that returned gave one of them, for its own amount.
C2_NoLostCredit ==
    \A u \in Users :
        /\ Crediting(u) = {} => BalanceOf(u) = hist.credited[u]
        /\ \A k \in 1..Len(hist.log[u]) :
             hist.log[u][k][2]
               = (IF k = 1 THEN 0 ELSE hist.log[u][k - 1][2]) + hist.log[u][k][1]
        /\ \A t \in Tasks :
             (pc[t] = "done" /\ call[t].op = "add_balance" /\ call[t].key = u)
                => \E k \in 1..Len(hist.log[u]) :
                     hist.log[u][k] = << call[t].arg, ret[t][1] >>

\* C2 witness: two overlapping add_balance calls on one user, with amounts that
\* are not zero, have both returned.
C2_Witness ==
    /\ ~hist.seq
    /\ hist.calls = 2
    /\ \E u \in Users : \E t, s \in Tasks :
         /\ t # s
         /\ pc[t] = "done" /\ call[t].op = "add_balance" /\ call[t].key = u
         /\ pc[s] = "done" /\ call[s].op = "add_balance" /\ call[s].key = u
         /\ call[t].arg # 0 /\ call[s].arg # 0

\* C5: for a sequential caller, add_balance(u, d) returns the sum of the
\* amounts of the add_balance calls on u so far, which is then the stored
\* balance, and get_balance(u) returns that sum.
C5_RunningTotal ==
    LET t == hist.last
        u == call[t].key
    IN  /\ Returned({"add_balance"})
           => ret[t] = Some(hist.credited[u]) /\ BalanceOf(u) = hist.credited[u]
        /\ Returned({"get_balance"})
           => ret[t] = Some(hist.credited[u])

\* C5 witness: get_balance has returned 1 after add_balance(u, 2) and
\* add_balance(u, -1).
C5_Witness ==
    /\ Returned({"get_balance"})
    /\ hist.log[call[hist.last].key] = << <<2, 2>>, <<-1, 1>> >>
    /\ ret[hist.last] = Some(1)

\* ------------------------------------------------- reads of unknown entities
ReadOps == Accessors \cup {"get_balance", "leaderboard", "get_last_save"}

\* Nothing overlapped the call of task t: it is the latest call, it was made
\* while no call was in flight, and it has returned or raised.
Undisturbed(t) == hist.last = t /\ hist.alone /\ pc[t] \in {"done", "raised"}

\* C11: a read of an unknown entity returns the documented default and does
\* not raise.  For a read that no other call overlapped: get_balance of a user
\* with no ledger row returns 0, get_guild_settings of a guild with no row
\* returns the GuildSettings of that guild with its four optional fields null,
\* and get_last_save returns null when no last save is stored; the read
\* raises only if the schema creation it ran in setup() failed.
C11_UnknownReadsDefault ==
    \A t \in Tasks :
        (Undisturbed(t) /\ call[t].op \in ReadOps) =>
            /\ pc[t] = "raised" => (~is_setup /\ hist.init_fails > 0)
            /\ (pc[t] = "done" /\ call[t].op = "get_balance"
                   /\ points[call[t].key] = None)
                  => ret[t] = Some(0)
            /\ (pc[t] = "done" /\ call[t].op = "get_guild_settings"
                   /\ guild_settings[call[t].key] = None)
                  => ret[t] = Some([ guild_id |-> call[t].key, prefix |-> None,
                                     welcome_channel_id |-> None,
                                     mod_role_id |-> None, admin_role_id |-> None ])
            /\ (pc[t] = "done" /\ call[t].op = "get_last_save" /\ metadata = None)
                  => ret[t] = Some(None)

\* ------------------------------------------------------- get_prefix(None)
\* The step is a call of get_prefix(None).
CallsPrefixNoGuild ==
    /\ hist'.calls = hist.calls + 1
    /\ call'[hist'.last].op = "get_prefix"
    /\ call'[hist'.last].key = 0

\* C12: get_prefix(None) returns the default prefix whatever the store and the
\* cache hold, and has no effect: the call returns in the step that makes it,
\* so it dispatches no query and waits for nothing; it does not start or wait
\* for the schema initialisation (the ready flag, the setup lock and its
\* waiters are untouched), and the store and the settings cache are unchanged.
C12_PrefixNoGuild ==
    [][CallsPrefixNoGuild =>
         /\ pc'[hist'.last] = "done"
         /\ ret'[hist'.last] = Some(DefaultPrefix)
         /\ \A s \in Tasks \ {hist'.last} : pc'[s] = pc[s] /\ ret'[s] = ret[s]
         /\ UNCHANGED << is_setup, locked, waiters, schema, guild_settings,
                         settings_cache, points, metadata, db_writer, snapshot >>]_vars

\* get_prefix(None) has returned while another task holds the setup lock and
\* creates the schema.
C12_Witness ==
    \E t, s \in Tasks :
        /\ pc[t] = "done" /\ call[t].op = "get_prefix" /\ call[t].key = 0
        /\ pc[s] = "init" /\ locked /\ ~is_setup

\* ------------------------------------------------------------ leaderboard
\* The users that have a ledger row.
LedgerRows == { u \in Users : points[u] # None }

\* The limit a leaderboard call asks for.
LimitOf(c) == IF c.arg = None THEN 5 ELSE c.arg[1]

\* C13: for a limit >= 0, leaderboard returns the first min(limit, rows)
\* entries of the ledger in the order balance descending, user_id ascending,
\* as (user_id, balance) pairs: the result has that length, every entry is a
\* ledger row with its balance, each entry ranks strictly before the next, and
\* every row left out ranks after every entry.  The order being total, the
\* result is determined by the ledger and the limit.
C13_LeaderboardOrder ==
    \A t \in Tasks :
        (pc[t] = "done" /\ call[t].op = "leaderboard" /\ LimitOf(call[t]) >= 0) =>
            LET r == ret[t][1]
                n == IF LimitOf(call[t]) < Cardinality(LedgerRows)
                     THEN LimitOf(call[t]) ELSE Cardinality(LedgerRows)
                shown == { r[i][1] : i \in 1..Len(r) }
            IN  /\ Len(r) = n
                /\ \A i \in 1..Len(r) :
                      r[i][1] \in LedgerRows /\ r[i][2] = points[r[i][1]][1]
                /\ \A i, j \in 1..Len(r) :
                      i < j => \/ r[i][2] > r[j][2]
                               \/ r[i][2] = r[j][2] /\ r[i][1] < r[j][1]
                /\ \A u \in LedgerRows \ shown : \A i \in 1..Len(r) :
                      \/ r[i][2] > points[u][1]
                      \/ r[i][2] = points[u][1] /\ r[i][1] < u

\* leaderboard(2) has returned both rows of a ledger whose two users have the
\* same balance.
C13_Witness ==
    \E t \in Tasks :
        /\ pc[t] = "done" /\ call[t].op = "leaderboard" /\ call[t].arg = Some(2)
        /\ Cardinality(LedgerRows) = 2
        /\ \A u, v \in LedgerRows : points[u] = points[v]
        /\ Len(ret[t][1]) = 2

\* C14: the list leaderboard returns is never longer than max(limit, 0), for
\* every integer limit, zero and negative ones included, and never longer than
\* 5 when the call has no argument.
C14_LeaderboardLength ==
    \A t \in Tasks :
        (pc[t] = "done" /\ call[t].op = "leaderboard") =>
            Len(ret[t][1]) <= (IF LimitOf(call[t]) > 0 THEN LimitOf(call[t]) ELSE 0)

\* -------------------------------------------------------------- last save
\* A datetime truncated to second precision.
Truncated(d) == [d EXCEPT !.microsecond = 0]

\* C15: get_last_save returns null before any record_last_save has returned;
\* after record_last_save(T_1) .. record_last_save(T_n) it returns T_n
\* truncated to second precision, with the time zone T_n had, and the store
\* holds the one last_save value written last.
C15_LastSaveRoundTrip ==
    \A t \in Tasks :
        (pc[t] = "done" /\ call[t].op = "get_last_save") =>
            IF hist.saved = None
            THEN ret[t] = Some(None) /\ metadata = None
            ELSE /\ ret[t] = Some(Some(Truncated(hist.saved[1])))
                 /\ metadata # None

\* get_last_save has returned after two record_last_save calls, the second
\* with microseconds and an offset from UTC.
C15_Witness ==
    \E t \in Tasks :
        /\ pc[t] = "done" /\ call[t].op = "get_last_save"
        /\ hist.saves = 2 /\ hist.saved # None
        /\ hist.saved[1].microsecond # 0
        /\ hist.saved[1].tzinfo = Some(-330)

\* The stored last_save string ends in no UTC offset.
StoredNaive ==
    /\ metadata # None
    /\ \A i \in 1..Len(metadata[1]) : metadata[1][i] \notin {"+", "-"}

\* C16: when the stored last_save string carries no time zone, the timestamp
\* get_last_save returns is aware, with the UTC offset zero.
C16_NaiveReadAsUtc ==
    \A t \in Tasks :
        (pc[t] = "done" /\ call[t].op = "get_last_save" /\ StoredNaive) =>
            /\ ret[t][1] # None
            /\ ret[t][1][1].tzinfo = Some(0)

\* --------------------------------------------------------- metadata values
\* C17: the manager has get_metadata_value(key) and set_metadata_value(key,
\* value), a plain upsert by key: both calls return, and get_metadata_value(k)
\* returns the value of the latest set_metadata_value for k, null when k was
\* never set, whatever was set for other keys.
C17_MetadataUpsert ==
    \A t \in Tasks :
        (pc[t] \in {"done", "raised"}
         /\ call[t].op \in {"get_metadata_value", "set_metadata_value"}) =>
            /\ pc[t] = "done"
            /\ call[t].op = "get_metadata_value" => ret[t] = Some(hist.meta[call[t].key])

\* ------------------------------------------------- failed schema creation
InInitialise == { t \in Tasks : pc[t] \in {"init", "init_ok", "init_err"} }

\* C18: when _initialise fails, the setup() that ran it raises in its next
\* step, without running _initialise again, the store is not marked ready and
\* the setup lock is released.  The lock is held only while a task is inside
\* the initialisation, and while it is free the first waiter, if any, is a task
\* ready to resume in setup(): no caller is left behind a lock nobody holds.
C18_InitFailurePropagates ==
    /\ [](locked => InInitialise # {})
    /\ []((~locked /\ waiters # <<>>) =>
             pc[Head(waiters)] \in {"lock_wait", "reload_lock_wait"})
    /\ [][\A t \in Tasks :
            (pc[t] = "init_err" /\ pc'[t] # "init_err") =>
                /\ pc'[t] = "raised"
                /\ ~is_setup' /\ ~locked' /\ ~schema'
                /\ hist'.init_runs = hist.init_runs]_vars

\* A call has raised the error of a failed schema creation, and a later
\* caller's setup() then created the schema.
C18_Witness ==
    \E t \in Tasks :
        /\ pc[t] = "raised"
        /\ hist.init_fails = 1 /\ hist.init_runs = 2
        /\ is_setup /\ schema

\* ---------------------------------------------------------------- points cog
\* C19: the daily command, invoked for a user with no recorded daily claim,
\* returns normally, credits 100 points to the user's balance and replies
\* "You received 100 points!".
C19_DailyReward ==
    \A t \in Tasks :
        (call[t].op = "daily" /\ pc[t] \in {"done", "raised"}
         /\ hist.seq /\ hist.last = t) =>
            /\ pc[t] = "done"
            /\ ret[t] = Some("You received 100 points!")
            /\ BalanceOf(call[t].key) = hist.bal_before + 100

\* The step invokes addpoints for task t.
InvokesAddpoints(t) ==
    /\ pc[t] \in Resting
    /\ hist'.calls = hist.calls + 1 /\ hist'.last = t
    /\ call'[t].op = "addpoints"

\* C20: with addpoints the only writer of the ledger, no stored balance is
\* ever negative; addpoints with amount <= 0 replies with the rejection and
\* changes no balance; and the ledger changes only by an addpoints with
\* amount > 0, which increases the balance of its member by exactly amount and
\* leaves the other balances as they are.
C20_AddpointsNonNegative ==
    /\ [](\A u \in Users : points[u] # None => points[u][1] >= 0)
    /\ [][\A t \in Tasks :
            (InvokesAddpoints(t) /\ call'[t].arg <= 0) =>
                /\ pc'[t] = "done" /\ ret'[t] = Some(RejectReply)
                /\ points' = points]_vars
    /\ [][points' # points =>
            \E t \in Tasks :
                /\ call[t].op = "addpoints" /\ call[t].arg > 0
                /\ pc[t] # pc'[t]
                /\ points' = [points EXCEPT ![call[t].key] =
                                Some(BalanceOf(call[t].key) + call[t].arg)]]_vars

\* ------------------------------------------------------ setup before use
\* Where a call stands when its worker thread is about to read or write the
\* store, or is in the middle of its transaction.
StoreAccess ==
    { "query", "write", "delete", "bal_query", "tx_select", "tx_insert",
      "tx_commit", "lb_query", "save_write", "save_query" }

\* C21: no operation of the manager reads or writes the store before the
\* schema initialisation has completed successfully: whenever the worker
\* thread of get_guild_settings, a mutator, clear_guild_settings, get_balance,
\* add_balance, leaderboard, record_last_save or get_last_save is at its store
\* access, a setup() has completed (_is_setup is set), an execution of
\* _initialise has succeeded and the tables exist.
C21_SetupPrecedesAccess ==
    \A t \in Tasks :
        pc[t] \in StoreAccess =>
            /\ is_setup
            /\ schema
            /\ hist.init_runs > hist.init_fails

\* C21 witness: an operation is at its store access after a schema
\* initialisation that failed and one that succeeded.
C21_Witness ==
    \E t \in Tasks :
        /\ pc[t] \in StoreAccess
        /\ hist.init_fails = 1 /\ hist.init_runs = 2

\* ------------------------------------------------- connections confined
\* C22: the worker-thread unit of every operation of the manager opens its
\* own connection and commits and closes it before the unit ends: whenever a
\* call is not inside its unit (the unit has returned or raised, or the
\* calling task is suspended elsewhere), no connection opened for it is open,
\* it holds no read transaction and it does not hold the write lock.
C22_ConnectionConfined ==
    \A t \in Tasks :
        (call[t].op \in Methods /\ pc[t] \notin InUnit) =>
            /\ connection[t] = "none"
            /\ snapshot[t] = "none"
            /\ db_writer # Some(t)

\* ------------------------------------------------- points cog, overlapping
\* The add_points calls of the points cog on user u that are in flight.
AddingPoints(u) ==
    { t \in Tasks : pc[t] \notin Resting /\ call[t].op = "addpoints" /\ call[t].key = u }

\* C23: add_points calls of the points cog that overlap on one user lose no
\* credit: whenever no add_points on user u is in flight, the balance stored
\* for u is the balance before the calls (zero, the ledger starts empty) plus
\* the sum of the amounts of the add_points calls on u that returned.
C23_NoLostPoints ==
    \A u \in Users :
        AddingPoints(u) = {} => BalanceOf(u) = hist.credited[u]

\* ---------------------------------------------------------------- start-up
\* The extensions of the cog files in the directory: every entry whose name
\* ends in ".py", other than "__init__.py".
Discovered ==
    { ExtensionName(f) : f \in { e \in cogs_dir : EndsWith(e, DotPy) /\ e # InitPy } }

\* The record the logger "bot" got for the i-th call of bot.load_extension.
LoadRecord(i) ==
    IF attempts[i] \in extensions
    THEN << "info", "Loaded extension", attempts[i] >>
    ELSE << "exception", "Failed to load extension", attempts[i] >>

\* C28: load_extensions calls bot.load_extension for the discovered cogs in
\* sorted order, each once: the calls made so far followed by the extensions
\* the loop has yet to take are the cog files of the directory in strictly
\* increasing order.  Every call is logged, a call that raised as an exception
\* record, and the loop goes on after it: while extensions remain the loop has
\* not ended, main() reaches bot.start only with every discovered cog tried,
\* and only an error of setup(), before any cog is tried, ends main().
C28_LoadsEveryCog ==
    LET all == attempts \o pending
    IN  /\ boot \in {"loading", "started"} =>
              /\ { all[i] : i \in 1..Len(all) } = Discovered
              /\ \A i, j \in 1..Len(all) : i < j => StrLess(all[i], all[j])
        /\ boot = "loading" <=> pending # <<>>
        /\ boot = "started" =>
              { attempts[i] : i \in 1..Len(attempts) } = Discovered
        /\ boot \in {"main", "setup", "aborted"} => attempts = <<>> /\ pending = <<>>
        /\ Len(bot_log) >= Len(attempts)
        /\ \A i \in 1..Len(attempts) : bot_log[i] = LoadRecord(i)

\* C28 witness: four cogs were discovered, the load of the second raised, the
\* third and the fourth were loaded after it, and bot.start runs.
C28_Witness ==
    /\ boot = "started"
    /\ Len(attempts) = 4
    /\ attempts[2] \notin extensions
    /\ attempts[3] \in extensions /\ attempts[4] \in extensions
    /\ bot_log[2][1] = "exception"

\* ----------------------------------------------------------- command errors
\* The ctx.send calls so far that carry the "Uh oh!" embed.
UhOhSent == { i \in 1..Len(channel) : channel[i].title = "Uh oh!" }

\* A handler has logged an error of the class of the event being dispatched.
ErrorLogged ==
    \/ \E i \in 1..Len(error_log) : error_log[i] = << "error", event[1].error >>
    \/ \E i \in 1..Len(bot_log) :
          bot_log[i] = << "error", "Error in command", event[1].error >>

\* C27: with the bot's on_command_error and the listener of ErrorHandler both
\* registered, once the handlers of a command error have returned, for a
\* command without an error handler of its own and an error other than
\* CommandNotFound, exactly one "Uh oh!" embed has been sent to the invoking
\* channel and the error has been logged.
C27_OneErrorEmbed ==
    ( /\ event # None
      /\ Registered = Handlers
      /\ \A h \in Handlers : handler[h] = "returned"
      /\ ~event[1].on_error
      /\ event[1].error # "CommandNotFound" ) =>
        /\ Cardinality(UhOhSent) = 1
        /\ ErrorLogged

\* -------------------------------------------------------------- moderation
\* A guard of kick or ban fails for the invocation i.
GuardFails(i) ==
    \/ ~i.guild
    \/ i.self
    \/ i.outranked /\ ~i.owner
    \/ i.enforced = Some(FALSE)

\* C24: once an invocation of kick or ban for which a guard fails is through,
\* outside a guild, with the author as the target, with a target whose top
\* role is not below the author's while the author does not own the guild, or
\* with _enforce_role returning false, member.kick / member.ban has not been
\* called and exactly one message has been sent.
C24_GuardsRefuse ==
    ( /\ ctx # None
      /\ ctx[1].command \in {"kick", "ban"}
      /\ ctx[1].stage \in {"returned", "raised"}
      /\ Dispatched
      /\ GuardFails(ctx[1]) ) =>
        /\ ~ctx[1].acted
        /\ Len(channel) = 1

\* C25: _enforce_role has returned for the invocation.  It denied the command
\* exactly when the invocation came from outside a guild, or the author is no
\* member, or a role was configured that the guild still has and the author
\* does not hold.  When the configured id named no role of the guild, for a
\* member of the guild, the command was allowed and the store holds no role
\* for the guild any more, in the row and in the cache.
C25_EnforceRole ==
    ( /\ ctx # None
      /\ ctx[1].command \in {"kick", "ban", "unban"}
      /\ ctx[1].enforced # None ) =>
        LET i == ctx[1]
            cached == settings_cache[TheGuild]
        IN  /\ i.enforced = Some(FALSE) <=>
                 \/ ~i.guild
                 \/ ~i.member
                 \/ /\ i.configured # None
                    /\ i.configured[1] \in i.existing
                    /\ i.configured[1] \notin i.roles
            /\ ( i.guild /\ i.member /\ i.configured # None
                 /\ i.configured[1] \notin i.existing ) =>
                 /\ i.enforced = Some(TRUE)
                 /\ StoredRole(i.command) = None
                 /\ cached # None =>
                      Project(RoleGetter(i.command), cached[1]) = None

\* C25 witness: a role was configured and then deleted; the next kick found
\* the id stale, had the setting cleared, was allowed and kicked the member.
C25_Witness ==
    /\ ctx # None
    /\ ctx[1].command = "kick"
    /\ ctx[1].configured = Some(1)
    /\ ctx[1].existing = {}
    /\ ctx[1].enforced = Some(TRUE)
    /\ ctx[1].acted
    /\ StoredRole("kick") = None

\* ------------------------------------------------------------ frame effects
\* The task whose worker thread or coroutine takes the step.
Acting(t) == pc'[t] # pc[t]

\* C26: every step of an operation of the manager changes only the entity the
\* operation is keyed by.  The row of the guild g changes only in a step of a
\* mutator or of clear_guild_settings called for g, and its cache entry only
\* in a step of a guild-settings operation called for g; the balance of the
\* user u changes only in a step of add_balance called for u; the metadata
\* change only in a step of record_last_save.  So a mutator and a clear leave
\* the other guilds, the ledger and the metadata as they are, add_balance the
\* other users, the guild settings and the metadata, and the reads every row.
C26_ChangesOnlyItsEntity ==
    [][ /\ \A g \in Guilds :
             guild_settings'[g] # guild_settings[g] =>
                \E t \in Tasks :
                    /\ Acting(t)
                    /\ call[t].op \in Mutators \cup {"clear_guild_settings"}
                    /\ call[t].key = g
        /\ \A g \in Guilds :
             settings_cache'[g] # settings_cache[g] =>
                \E t \in Tasks :
                    Acting(t) /\ call[t].op \in GuildOps /\ call[t].key = g
        /\ \A u \in Users :
             points'[u] # points[u] =>
                \E t \in Tasks :
                    Acting(t) /\ call[t].op = "add_balance" /\ call[t].key = u
        /\ metadata' # metadata =>
                \E t \in Tasks : Acting(t) /\ call[t].op = "record_last_save"
      ]_vars

\* C26 witness: get_guild_settings has cached the settings of one guild and a
\* mutator has written the row of the other, which left the cache entry of the
\* first in place.
C26_Witness ==
    /\ \A t \in Tasks : pc[t] \in Resting
    /\ \E g, h \in Guilds :
         /\ g # h
         /\ settings_cache[g] # None
         /\ guild_settings[h] # None
         /\ \E t \in Tasks : call[t].op = "set_moderator_role" /\ call[t].key = h

\* ---------------------------------------------------------------- coin map
\* C29: once a listing request of _ensure_coin_map has completed, with a
\* listing or with a client error, the coin map is set, and an invocation of
\* crypto made after that has issued no listing request.  A request that
\* failed with a client error was re-raised to its caller, which answered that
\* the service could not be reached; from then on the map is empty, and every
\* invocation made after it that has returned answered that it does not
\* recognise the symbol.
C29_ListingFetchedOnce ==
    /\ Completed # {} => coin_map # None
    /\ \A k \in CryptoSlots : crypto[k].after => ~crypto[k].requested
    /\ \A k \in CryptoSlots :
         crypto[k].fetched = "ClientError" =>
            /\ crypto[k].reply = CouldNotReach
            /\ coin_map = Some({})
    /\ \A k \in CryptoSlots :
         (crypto[k].after_failed /\ crypto[k].stage = "returned") =>
            crypto[k].reply = NotRecognised

\* ----------------------------------------------------------------- on_ready
\* C30: over all on_ready events of the process, overlapping handlers
\* included, bot.tree.sync() has been called at most once, and a handler whose
\* sync has returned or raised has left bot._slash_synced set.
C30_SyncsOnce ==
    /\ syncs <= 1
    /\ \A k \in ReadyEvents : ready[k].sync # "none" => slash_synced

====
